---------------------------- MODULE Spec2Model ----------------------------
(***************************************************************************)
(* A model of src/src/conf.c: the configuration parser of the gateway      *)
(* daemon (keyword dispatch, server blocks, firewall rulesets, trusted MAC *)
(* list) and the runtime demotion of a failed authentication server.       *)
(*                                                                         *)
(* C strings are modelled as they are in memory: a buffer is a sequence of *)
(* characters in which NUL marks the end of a string, a char* is an index  *)
(* into the buffer, and the in-place writes of the tokenizers are writes   *)
(* to the buffer.                                                          *)
(***************************************************************************)
EXTENDS Integers, Sequences, FiniteSets, TLC

VARIABLES
    \* ---- the firewall-rule mini-parser, one call (SpecRule)
    leftover,       \* the argument string of _parse_firewall_rule
    ruleset,        \* its ruleset-name argument
    ret,            \* its return value (0 while not yet called)
    retAt,          \* the source line of the return statement taken
    rulesets,       \* config.rulesets: sequence of [name, rules]
    pcR,            \* "call" before the call, "done" after it
    \* ---- the trusted-MAC list (SpecMac)
    trustedmaclist, \* config.trustedmaclist: the sequence of the mac fields
    macArg,         \* the argument of the last parse_trusted_mac_list call
    macCalls,       \* the number of calls made
    \* ---- the authentication-server list at run time (SpecMark)
    nserv,          \* the t_serv records allocated: 1..nserv
    nxt,            \* the next field of every t_serv (0 is NULL)
    auth_servers,   \* config.auth_servers: the head of the list (0 is NULL)
    pcM,            \* the statement mark_auth_server_bad is at
    bad_server,     \* its argument
    tmp,            \* its local
    pre,            \* the list when the running or last call found its
                    \* condition true (<<>> when it did not)
    rd,             \* the pointer a reader that takes no lock holds
    \* ---- config_read (Spec)
    pc,             \* where the parser is: "open", "top", "server",
                    \* "ruleset", "done" (config_read has returned),
                    \* "validated" (so has config_validate), "ready"
                    \* (config_init_override has), "exited"
    line,           \* the line read last
    linenum,        \* the line counter of config_read
    nread,          \* the number of lines read from the file
    eof,            \* fgets has found the end of the file
    exitAt,         \* the source line of the exit() taken, 0 for none
    blockType,      \* the type argument of the running parse_server
    srv,            \* the locals of the running parse_server
    rsname,         \* the ruleset argument of the running parse_firewall_ruleset
    config,         \* the scalar fields of config
    portal_servers, \* config.portal_servers (0 is NULL)
    plat_servers,   \* config.plat_servers (0 is NULL)
    serv,           \* the fields of every t_serv but next
    calls,          \* the calls of parse_firewall_ruleset (ret 0) and of
                    \* _parse_firewall_rule made so far, in order:
                    \* [name, ret, rule]
    \* ---- config_validate
    missing_parms,  \* the static flag config_notnull sets
    reported,       \* the parameters reported at LOG_ERR as not set
    \* ---- parse_boolean_value, one call (SpecBool)
    boolArg,        \* its argument
    boolRet,        \* its return value (0 while not yet called)
    pcB,            \* "call" before the call, "done" after it
    \* ---- wd_gethostbyname, as parse_server calls it
    lookups         \* the calls made so far, in order: [host, answer]

RuleVars == <<leftover, ruleset, ret, retAt, rulesets, pcR>>

MacVars == <<trustedmaclist, macArg, macCalls>>

MarkVars == <<nserv, nxt, auth_servers, pcM, bad_server, tmp, pre, rd>>

ReadVars == <<pc, line, linenum, nread, eof, exitAt, blockType, srv, rsname,
              config, portal_servers, plat_servers, serv, calls>>

ValidateVars == <<missing_parms, reported>>

BoolVars == <<boolArg, boolRet, pcB>>

ResolverVars == <<lookups>>

vars == <<RuleVars, MacVars, MarkVars, ReadVars, ValidateVars, BoolVars,
          ResolverVars>>

\* The value of F at v, v being evaluated once.
Bind(v, F(_)) == CHOOSE r \in {F(x) : x \in {v}} : TRUE

(***************************************************************************)
(* Characters and C strings                                                *)
(***************************************************************************)
NUL == "NUL"
SP  == " "
TAB == "\t"
LF  == "\n"
CR  == "\r"

\* A NULL char* (a value no C string can have: NUL never occurs inside one).
NULL == <<NUL>>

isblank(c) == c \in {SP, TAB}

isdigit(c) == c \in {"0", "1", "2", "3", "4", "5", "6", "7", "8", "9"}

UpperCase == <<"A","B","C","D","E","F","G","H","I","J","K","L","M",
               "N","O","P","Q","R","S","T","U","V","W","X","Y","Z">>
LowerCase == <<"a","b","c","d","e","f","g","h","i","j","k","l","m",
               "n","o","p","q","r","s","t","u","v","w","x","y","z">>

tolower(c) ==
    IF \E i \in 1..Len(UpperCase) : UpperCase[i] = c
    THEN LowerCase[CHOOSE i \in 1..Len(UpperCase) : UpperCase[i] = c]
    ELSE c

\* *(buf + p - 1); memory past the text of a line is NUL (the line buffers
\* are cleared before each read).
At(buf, p) == IF p >= 1 /\ p <= Len(buf) THEN buf[p] ELSE NUL

\* The index of the NUL that ends the string starting at p.
StrEnd(buf, p) ==
    CHOOSE e \in p..(Len(buf) + 1) \cup {p} :
        /\ At(buf, e) = NUL
        /\ \A i \in p..(e - 1) : At(buf, i) # NUL

\* The string a char* p points to.
CStr(buf, p) == SubSeq(buf, p, StrEnd(buf, p) - 1)

\* *(buf + p - 1) = c
SetAt(buf, p, c) == IF p >= 1 /\ p <= Len(buf) THEN [buf EXCEPT ![p] = c] ELSE buf

strcmp0(a, b) == a = b

strcasecmp0(a, b) ==
    /\ Len(a) = Len(b)
    /\ \A i \in 1..Len(a) : tolower(a[i]) = tolower(b[i])

\* strncmp(s, lit, Len(lit)) == 0 for a string s and a literal lit
strncmp0(s, lit) ==
    /\ Len(s) >= Len(lit)
    /\ SubSeq(s, 1, Len(lit)) = lit

\* strchr(p, c): the index of the first c in the string at p, 0 for NULL
strchr(buf, p, c) ==
    IF \E i \in p..(StrEnd(buf, p) - 1) : buf[i] = c
    THEN CHOOSE i \in p..(StrEnd(buf, p) - 1) :
             buf[i] = c /\ \A j \in p..(i - 1) : buf[j] # c
    ELSE 0

\* while (isblank(*p)) p++;
SkipBlanks(buf, p) ==
    CHOOSE q \in p..(Len(buf) + 1) \cup {p} :
        /\ ~isblank(At(buf, q))
        /\ \A i \in p..(q - 1) : isblank(At(buf, i))

\* while (*p != '\0' && !isblank(*p)) p++;
WordEnd(buf, p) ==
    CHOOSE q \in p..(Len(buf) + 1) \cup {p} :
        /\ At(buf, q) = NUL \/ isblank(At(buf, q))
        /\ \A i \in p..(q - 1) : At(buf, i) # NUL /\ ~isblank(At(buf, i))

(***************************************************************************)
(* The firewall-rule mini-parser                                           *)
(***************************************************************************)
TARGET_REJECT == "REJECT"
TARGET_DROP   == "DROP"
TARGET_ACCEPT == "ACCEPT"
TARGET_LOG    == "LOG"
TARGET_ULOG   == "ULOG"

kw_block == <<"b","l","o","c","k">>
kw_drop  == <<"d","r","o","p">>
kw_allow == <<"a","l","l","o","w">>
kw_log   == <<"l","o","g">>
kw_ulog  == <<"u","l","o","g">>
kw_tcp   == <<"t","c","p">>
kw_udp   == <<"u","d","p">>
kw_icmp  == <<"i","c","m","p">>
kw_port  == <<"p","o","r","t">>
kw_to    == <<"t","o">>
DefaultMask == <<"0",".","0",".","0",".","0","/","0">>

\* TO_NEXT_WORD(s, e) on the buffer buf: the buffer, s and e afterwards.
TO_NEXT_WORD(buf, s, e) ==
    LET q == WordEnd(buf, s)
    IN  IF At(buf, q) # NUL
        THEN LET b == SetAt(buf, q, NUL)
             IN  [buf |-> b, s |-> SkipBlanks(b, q + 1), e |-> e]
        ELSE [buf |-> buf, s |-> q, e |-> 1]

\* The lower-casing loop at the head of _parse_firewall_rule.
LowerCased(buf, p) ==
    [i \in 1..Len(buf) |->
        IF i >= p /\ i < StrEnd(buf, p) THEN tolower(buf[i]) ELSE buf[i]]

\* The target chosen for the first word; "" when the word is refused.
RuleTarget(token, finished) ==
    IF strcasecmp0(token, kw_block) \/ finished = 1 THEN TARGET_REJECT
    ELSE IF strcasecmp0(token, kw_drop) THEN TARGET_DROP
    ELSE IF strcasecmp0(token, kw_allow) THEN TARGET_ACCEPT
    ELSE IF strcasecmp0(token, kw_log) THEN TARGET_LOG
    ELSE IF strcasecmp0(token, kw_ulog) THEN TARGET_ULOG
    ELSE ""

IsProtocol(s) ==
    strncmp0(s, kw_tcp) \/ strncmp0(s, kw_udp) \/ strncmp0(s, kw_icmp)

IsPortKeyword(s) == strncmp0(s, kw_port)

\* all_nums after the loop over the port
PortAllNums(port) == \A i \in 1..Len(port) : isdigit(port[i])

\* all_nums after the loop over the mask
MaskAllNums(mask) ==
    \A i \in 1..Len(mask) : isdigit(mask[i]) \/ mask[i] = "." \/ mask[i] = "/"

\* the "to" test: strcmp(other_kw, "to") || finished
BadToClause(other_kw, finished) == ~strcmp0(other_kw, kw_to) \/ finished = 1

RET_BAD_TARGET == -1
RET_BAD_PORT   == -3
RET_BAD_TO     == -4
RET_BAD_MASK   == -3
RET_OK         == 1

\* The rule record generated on success.
RuleRecord(target, protocol, port, mask) ==
    [target   |-> target,
     protocol |-> protocol,
     port     |-> port,
     mask     |-> IF mask = NULL THEN DefaultMask ELSE mask]

\* A return before the rule record is generated.
RuleFail(r, at) == [ret |-> r, at |-> at, rule |-> NULL]

\* The parsing half of _parse_firewall_rule (up to "Generate rule record"):
\* the return value, the return statement taken and, on success, the rule.
\* w1..w6 are the buffer, leftover and finished after each TO_NEXT_WORD.
ParseRuleLine(buf0, p0) ==
    Bind(TO_NEXT_WORD(LowerCased(buf0, p0), p0, 0), LAMBDA w1 :
    Bind(RuleTarget(CStr(w1.buf, p0), w1.e), LAMBDA target :
    IF target = "" THEN RuleFail(RET_BAD_TARGET, 660) ELSE
    Bind(IsProtocol(CStr(w1.buf, w1.s)), LAMBDA hasPro :
    Bind(IF hasPro THEN TO_NEXT_WORD(w1.buf, w1.s, w1.e) ELSE w1, LAMBDA w2 :
    Bind(IF hasPro THEN CStr(w2.buf, w1.s) ELSE NULL, LAMBDA protocol :
    Bind(IsPortKeyword(CStr(w2.buf, w2.s)), LAMBDA hasPort :
    Bind(IF hasPort THEN TO_NEXT_WORD(w2.buf, w2.s, w2.e) ELSE w2, LAMBDA w3 :
    Bind(IF hasPort THEN TO_NEXT_WORD(w3.buf, w3.s, w3.e) ELSE w3, LAMBDA w4 :
    Bind(IF hasPort THEN CStr(w4.buf, w3.s) ELSE NULL, LAMBDA port :
    IF hasPort /\ ~PortAllNums(port) THEN RuleFail(RET_BAD_PORT, 683) ELSE
    IF w4.e # 0
    THEN [ret |-> RET_OK, at |-> 759,
          rule |-> RuleRecord(target, protocol, port, NULL)]
    ELSE
    Bind(TO_NEXT_WORD(w4.buf, w4.s, w4.e), LAMBDA w5 :
    IF BadToClause(CStr(w5.buf, w4.s), w5.e) THEN RuleFail(RET_BAD_TO, 695) ELSE
    Bind(TO_NEXT_WORD(w5.buf, w5.s, w5.e), LAMBDA w6 :
    Bind(CStr(w6.buf, w5.s), LAMBDA mask :
    IF ~MaskAllNums(mask) THEN RuleFail(RET_BAD_MASK, 708)
    ELSE [ret |-> RET_OK, at |-> 759,
          rule |-> RuleRecord(target, protocol, port, mask)]))))))))))))

\* The position of the ruleset called name in config.rulesets, 0 when absent.
FindRuleset(rs, name) ==
    IF \E i \in 1..Len(rs) : strcmp0(rs[i].name, name)
    THEN CHOOSE i \in 1..Len(rs) :
             strcmp0(rs[i].name, name)
             /\ \A j \in 1..(i - 1) : ~strcmp0(rs[j].name, name)
    ELSE 0

\* The rule is put at the head of the rule list.
AppendRuleAtHead(rs, name, rule) ==
    LET i == FindRuleset(rs, name)
    IN  IF i = 0
        THEN Append(rs, [name |-> name, rules |-> <<rule>>])
        ELSE [rs EXCEPT ![i].rules = <<rule>> \o @]

\* "Append the rule record": config.rulesets afterwards.
AppendRule(rs, name, rule) ==
    LET i == FindRuleset(rs, name)
    IN  IF i = 0
        THEN Append(rs, [name |-> name, rules |-> <<rule>>])
        ELSE [rs EXCEPT ![i].rules = Append(@, rule)]

\* _parse_firewall_rule(ruleset, leftover) with leftover = buf + p - 1:
\* the outcome of the parse and config.rulesets afterwards.
_parse_firewall_rule(rs, name, buf, p) ==
    Bind(ParseRuleLine(buf, p), LAMBDA r :
        [ret |-> r.ret, at |-> r.at, rule |-> r.rule,
         rulesets |-> IF r.ret = RET_OK THEN AppendRule(rs, name, r.rule) ELSE rs])

\* get_ruleset(ruleset): the rule list; the empty list is the NULL returned
\* when there is no such ruleset.
get_ruleset(rs, name) ==
    LET i == FindRuleset(rs, name)
    IN  IF i = 0 THEN <<>> ELSE rs[i].rules

(***************************************************************************)
(* SpecRule: one call of _parse_firewall_rule on a rule line               *)
(***************************************************************************)
MaxTrail  == 1      \* blanks after the last word of a rule line

w_foo    == <<"f","o","o">>
w_ALLOW  == <<"A","l","l","o","w">>
w_tcpx   == <<"t","c","p","x">>
w_80     == <<"8","0">>
w_abc    == <<"a","b","c">>
w_8a     == <<"8","a">>
w_mask10 == <<"1","0",".","0",".","0",".","0","/","8">>
w_maskx  == <<"1",".","2",".","x">>
w_rs1    == <<"r","s","1">>
w_rs2    == <<"r","s","2">>

RECURSIVE Join(_, _)
\* The words of ws, in order, with sep between consecutive words.
Join(ws, sep) ==
    IF ws = <<>> THEN <<>>
    ELSE IF Len(ws) = 1 THEN ws[1]
    ELSE ws[1] \o sep \o Join(Tail(ws), sep)

Blanks(n) == [i \in 1..n |-> SP]

TargetSegs == {<<>>, <<kw_block>>, <<kw_drop>>, <<kw_allow>>, <<kw_log>>,
               <<kw_ulog>>, <<w_foo>>, <<w_ALLOW>>}
ProtoSegs  == {<<>>, <<kw_tcp>>, <<kw_udp>>, <<kw_icmp>>, <<w_tcpx>>}
PortSegs   == {<<>>, <<kw_port>>, <<kw_port, w_80>>, <<kw_port, w_abc>>,
               <<kw_port, w_8a>>}
ToSegs     == {<<>>, <<kw_to>>, <<kw_to, w_mask10>>, <<kw_to, w_maskx>>,
               <<w_foo>>, <<kw_to, w_mask10, w_foo>>}
Separators == {<<SP>>, <<TAB>>}

\* The rule lines tried: every combination of the optional parts.
RuleInputs ==
    {Join(t \o pr \o po \o to, sep) \o Blanks(n) :
        t \in TargetSegs, pr \in ProtoSegs, po \in PortSegs, to \in ToSegs,
        sep \in Separators, n \in 0..MaxTrail}

RulesetNames == {w_rs1, w_rs2}

OldRule == [target |-> TARGET_DROP, protocol |-> kw_udp, port |-> NULL,
            mask |-> DefaultMask]

\* config.rulesets before the call: rs1 with one rule, rs2 not there yet.
InitRulesets == {<<[name |-> w_rs1, rules |-> <<OldRule>>]>>}

\* The caller hands over a pointer into its cleared line buffer.
CallParseRule ==
    /\ pcR = "call"
    /\ \E r \in {_parse_firewall_rule(rulesets, ruleset, leftover \o <<NUL, NUL>>, 1)} :
           /\ ret' = r.ret
           /\ retAt' = r.at
           /\ rulesets' = r.rulesets
    /\ pcR' = "done"
    /\ UNCHANGED <<leftover, ruleset, MacVars, MarkVars, ReadVars>>
    /\ UNCHANGED <<ValidateVars, BoolVars, ResolverVars>>

(***************************************************************************)
(* The rule grammar as the specification words it, on the words of a line  *)
(***************************************************************************)
RECURSIVE Words(_)
\* The blank-separated words of a string.
Words(s) ==
    IF s = <<>> THEN <<>>
    ELSE IF isblank(s[1]) THEN Words(Tail(s))
    ELSE LET n == CHOOSE k \in 1..Len(s) :
                      /\ \A i \in 1..k : ~isblank(s[i])
                      /\ k = Len(s) \/ isblank(s[k + 1])
         IN  <<SubSeq(s, 1, n)>> \o Words(SubSeq(s, n + 1, Len(s)))

Lower(s) == [i \in 1..Len(s) |-> tolower(s[i])]

LowerWords(s) == Words(Lower(s))

TargetWords == {kw_block, kw_drop, kw_allow, kw_log, kw_ulog}

\* The target the grammar gives to a first word ("" for no target).
GrammarTarget(w) ==
    IF w = kw_allow THEN TARGET_ACCEPT
    ELSE IF w = kw_block \/ w = <<>> THEN TARGET_REJECT
    ELSE IF w = kw_drop THEN TARGET_DROP
    ELSE IF w = kw_log THEN TARGET_LOG
    ELSE IF w = kw_ulog THEN TARGET_ULOG
    ELSE ""

AllDigits(w) == w # <<>> /\ \A i \in 1..Len(w) : isdigit(w[i])

\* rule := target [protocol] ["port" port] ["to" mask], read off the words.
GrammarRule(s) ==
    LET ws  == LowerWords(s)
        w(i) == IF i <= Len(ws) THEN ws[i] ELSE <<>>
        hasPro == IsProtocol(w(2))
        iPort == IF hasPro THEN 3 ELSE 2
        hasPor == w(iPort) = kw_port
        iTo == IF hasPor THEN iPort + 2 ELSE iPort
        hasTo == w(iTo) = kw_to
    IN  [target   |-> GrammarTarget(w(1)),
         protocol |-> IF hasPro THEN w(2) ELSE NULL,
         port     |-> IF hasPor THEN w(iPort + 1) ELSE NULL,
         mask     |-> IF hasTo THEN w(iTo + 1) ELSE DefaultMask]

\* The rule the call stored: the last rule of the ruleset it was given.
StoredRule ==
    LET rl == get_ruleset(rulesets, ruleset)
    IN  IF rl = <<>> THEN NULL ELSE rl[Len(rl)]

\* The line's first word is there and is none of the five targets.
BadTargetLine(s) ==
    LET ws == LowerWords(s)
    IN  ws # <<>> /\ ws[1] \notin TargetWords

\* "port" occurs and no non-empty all-digit word follows it.
BadPortLine(s) ==
    LET ws == LowerWords(s)
    IN  \E i \in 1..Len(ws) :
            /\ ws[i] = kw_port
            /\ i = Len(ws) \/ ~AllDigits(ws[i + 1])

\* C5: a rule line whose first word is non-empty and is none of block, drop,
\* allow, log, ulog is refused: the call reports a failure and appends no
\* rule to any ruleset.
C5_BadTargetRefused ==
    [][(pcR = "call" /\ pcR' = "done" /\ BadTargetLine(leftover))
          => (ret' < 0 /\ rulesets' = rulesets)]_vars

\* C6: the rule stored for an accepted line is the rule the grammar
\* target [protocol] ["port" port] ["to" mask] gives, the target being fixed
\* by the first word alone (stated here for the lines whose first word is
\* one of the five targets or is missing).
C6_StoredRuleIsGrammarRule ==
    (pcR = "done" /\ ret = RET_OK /\ ~BadTargetLine(leftover))
        => StoredRule = GrammarRule(leftover)

\* C7: a line in which "port" is not followed by a non-empty all-digit word
\* is refused: the call fails and appends no rule (stated here for the lines
\* that start with one of the five targets).
C7_BadPortRefused ==
    [][(pcR = "call" /\ pcR' = "done" /\ BadPortLine(leftover)
            /\ ~BadTargetLine(leftover))
          => (ret' < 0 /\ rulesets' = rulesets)]_vars

\* One rule line for each of the four failures: bad target, bad port, bad
\* "to" clause, bad mask.
FailingLines ==
    {Join(<<w_foo, kw_tcp>>, <<SP>>),
     Join(<<kw_allow, kw_port, w_abc>>, <<SP>>),
     Join(<<kw_allow, w_foo, w_mask10>>, <<SP>>),
     Join(<<kw_allow, kw_to, w_maskx>>, <<SP>>)}

\* The outcomes (return value, return statement) of the parser on them.
RuleOutcomes ==
    {[ret |-> ParseRuleLine(s \o <<NUL, NUL>>, 1).ret,
      at  |-> ParseRuleLine(s \o <<NUL, NUL>>, 1).at] : s \in FailingLines}

\* C8: the four failures have pairwise distinct codes, so none of the four
\* failing lines fails with this call's code at another check.
C8_CodesPairwiseDistinct ==
    (pcR = "done" /\ ret < 0)
        => \A o \in RuleOutcomes : o.ret = ret => o.at = retAt

(***************************************************************************)
(* The trusted-MAC list                                                    *)
(***************************************************************************)
VT == "VT"
FF == "\f"

isspace(c) == c \in {SP, TAB, LF, VT, FF, CR}

\* The scanset [A-Fa-f0-9:]
InMacScanset(c) ==
    \/ isdigit(c)
    \/ c \in {"A", "B", "C", "D", "E", "F", "a", "b", "c", "d", "e", "f", ":"}

\* The field width of the conversion %17[A-Fa-f0-9:]
MAC_WIDTH == 17

RECURSIVE strsep(_)
\* The tokens successive strsep(&ptrcopy, ", ") calls return on the string s:
\* every ',' and every ' ' ends a token, empty tokens included.
strsep(s) ==
    IF \E i \in 1..Len(s) : s[i] \in {",", SP}
    THEN LET d == CHOOSE i \in 1..Len(s) :
                      s[i] \in {",", SP} /\ \A j \in 1..(i - 1) : s[j] \notin {",", SP}
         IN  <<SubSeq(s, 1, d - 1)>> \o strsep(SubSeq(s, d + 1, Len(s)))
    ELSE <<s>>

\* sscanf(possiblemac, " %17[A-Fa-f0-9:]", mac): the string stored in mac, or
\* <<>> when nothing is converted (the call does not return 1).
ScanMac(tok) ==
    LET start == CHOOSE q \in 1..(Len(tok) + 1) :
                     /\ q = Len(tok) + 1 \/ ~isspace(tok[q])
                     /\ \A i \in 1..(q - 1) : isspace(tok[i])
        stop  == CHOOSE q \in start..(Len(tok) + 1) :
                     /\ \A i \in start..(q - 1) : InMacScanset(tok[i])
                     /\ \/ q = Len(tok) + 1
                        \/ ~InMacScanset(tok[q])
                        \/ q - start = MAC_WIDTH
                     /\ q - start <= MAC_WIDTH
    IN  SubSeq(tok, start, stop - 1)

\* skipmac after the walk to the last entry of a non-empty list: the first
\* entry is compared, then every entry that has a successor.
SkipMac(list, mac) ==
    \/ strcmp0(list[1], mac)
    \/ \E i \in 1..(Len(list) - 1) : strcmp0(list[i], mac)

\* "Copy mac to the list": config.trustedmaclist afterwards.
AddMac(list, mac) ==
    IF list = <<>> THEN <<mac>>
    ELSE IF SkipMac(list, mac) THEN list
    ELSE Append(list, mac)

RECURSIVE AddMacs(_, _)
\* The while loop over the tokens.
AddMacs(list, toks) ==
    IF toks = <<>> THEN list
    ELSE LET mac == ScanMac(toks[1])
         IN  AddMacs(IF mac # <<>> THEN AddMac(list, mac) ELSE list, Tail(toks))

\* parse_trusted_mac_list(ptr): config.trustedmaclist afterwards.
parse_trusted_mac_list(list, ptr) == AddMacs(list, strsep(ptr))

(***************************************************************************)
(* SpecMac: calls of parse_trusted_mac_list                                *)
(***************************************************************************)
MaxMacTokens == 2   \* candidate tokens in one argument string
MaxMacCalls  == 2   \* calls of parse_trusted_mac_list

m_A1   == <<"A","A",":","0","1">>
m_a1   == <<"a","a",":","0","1">>
m_B2   == <<"B","B",":","0","2">>
m_A1zz == <<"A","A",":","0","1","z","z">>
m_zz   == <<"z","z">>
\* eighteen scanset characters, one more than the conversion takes
m_long == <<"0","1",":","2","3",":","4","5",":","6","7",":","8","9",":","a","b","c">>

MacTokens == {m_A1, m_a1, m_B2, m_A1zz, m_zz, m_long}

MacDelims == {<<",">>, <<",", SP>>}

MacInputs ==
    UNION {{Join(ws, d) : ws \in [1..n -> MacTokens], d \in MacDelims} :
              n \in 1..MaxMacTokens}

CallParseTrustedMacList(ptr) ==
    /\ macCalls < MaxMacCalls
    /\ trustedmaclist' = parse_trusted_mac_list(trustedmaclist, ptr)
    /\ macArg' = ptr
    /\ macCalls' = macCalls + 1
    /\ UNCHANGED <<RuleVars, MarkVars, ReadVars>>
    /\ UNCHANGED <<ValidateVars, BoolVars, ResolverVars>>

\* C3: after any sequence of parse_trusted_mac_list calls the trusted-MAC list
\* holds no two entries with equal normalized MAC strings.
C3_NoDuplicateMacs ==
    \A i, j \in 1..Len(trustedmaclist) :
        trustedmaclist[i] = trustedmaclist[j] => i = j

(***************************************************************************)
(* The authentication-server list at run time                              *)
(***************************************************************************)
MaxServers == 4     \* AuthServer blocks parsed before the daemon runs

RECURSIVE Walk(_, _, _)
\* The records met following next from p, at most fuel of them.
Walk(nx, p, fuel) ==
    IF p = 0 \/ fuel = 0 THEN <<>>
    ELSE <<p>> \o Walk(nx, nx[p], fuel - 1)

RECURSIVE EndsInNull(_, _, _)
\* Following next from p reaches NULL (within fuel steps).
EndsInNull(nx, p, fuel) ==
    IF p = 0 THEN TRUE
    ELSE IF fuel = 0 THEN FALSE
    ELSE EndsInNull(nx, nx[p], fuel - 1)

\* The list a walk from the head sees (cut off if it never ends).
ListFrom(nx, head) == Walk(nx, head, Len(nx))

NullTerminated(nx, head) == EndsInNull(nx, head, Len(nx))

\* get_auth_server()
get_auth_server == auth_servers

\* The condition without its test of the head.
MarkConditionNoHeadTest(head, nx, bad) == bad # 0 /\ nx[bad] # 0

\* The condition of mark_auth_server_bad; bad_server->next is read only if
\* the first operand of && is true.
MarkCondition(head, nx, bad) == head = bad /\ nx[bad] # 0

\* The head stored by "config.auth_servers = bad_server->next".
NewHead(nx, bad) == nx[bad]

\* The next fields after "tmp->next = bad_server".
LinkLast(nx, t, bad) == [nx EXCEPT ![t] = bad]

\* The last statement stores nothing.
ClearNextSkipped(nx, t, bad) == nx

\* The next fields after "tmp->next = NULL".
ClearNext(nx, t, bad) == [nx EXCEPT ![t] = 0]

\* mark_auth_server_bad(bad) is entered and its condition evaluated.  With an
\* empty list and a NULL argument the condition reads NULL->next.
MarkEnter(bad) ==
    /\ pcM = "idle"
    /\ bad_server' = bad
    /\ IF auth_servers = 0 /\ bad = 0
       THEN pcM' = "segv" /\ UNCHANGED <<tmp, pre>>
       ELSE IF MarkCondition(auth_servers, nxt, bad)
            THEN /\ pcM' = "walk"
                 /\ tmp' = auth_servers
                 /\ pre' = ListFrom(nxt, auth_servers)
            ELSE /\ pcM' = "idle"
                 /\ pre' = <<>>
                 /\ UNCHANGED tmp
    /\ UNCHANGED <<nserv, nxt, auth_servers, rd, RuleVars, MacVars, ReadVars>>
    /\ UNCHANGED <<ValidateVars, BoolVars, ResolverVars>>

\* One turn of "for (tmp = config.auth_servers; tmp->next != NULL; tmp = tmp->next);"
MarkWalk ==
    /\ pcM = "walk"
    /\ IF nxt[tmp] # 0
       THEN tmp' = nxt[tmp] /\ pcM' = "walk"
       ELSE tmp' = tmp /\ pcM' = "setlast"
    /\ UNCHANGED <<nserv, nxt, auth_servers, bad_server, pre, rd, RuleVars, MacVars, ReadVars>>
    /\ UNCHANGED <<ValidateVars, BoolVars, ResolverVars>>

\* tmp->next = bad_server;
MarkSetLast ==
    /\ pcM = "setlast"
    /\ nxt' = LinkLast(nxt, tmp, bad_server)
    /\ pcM' = "sethead"
    /\ UNCHANGED <<nserv, auth_servers, bad_server, tmp, pre, rd, RuleVars, MacVars, ReadVars>>
    /\ UNCHANGED <<ValidateVars, BoolVars, ResolverVars>>

\* config.auth_servers = bad_server->next;
MarkSetHead ==
    /\ pcM = "sethead"
    /\ auth_servers' = NewHead(nxt, bad_server)
    /\ pcM' = "clear"
    /\ UNCHANGED <<nserv, nxt, bad_server, tmp, pre, rd, RuleVars, MacVars, ReadVars>>
    /\ UNCHANGED <<ValidateVars, BoolVars, ResolverVars>>

\* tmp->next = NULL; bad_server = NULL; and the function returns.
MarkClear ==
    /\ pcM = "clear"
    /\ nxt' = ClearNext(nxt, tmp, bad_server)
    /\ bad_server' = 0
    /\ pcM' = "idle"
    /\ UNCHANGED <<nserv, auth_servers, tmp, pre, rd, RuleVars, MacVars, ReadVars>>
    /\ UNCHANGED <<ValidateVars, BoolVars, ResolverVars>>

\* A reader takes the current server without the lock ...
ReaderGet ==
    /\ pcM \notin {"off", "segv"}
    /\ rd' = get_auth_server
    /\ UNCHANGED <<nserv, nxt, auth_servers, pcM, bad_server, tmp, pre, RuleVars, MacVars, ReadVars>>
    /\ UNCHANGED <<ValidateVars, BoolVars, ResolverVars>>

\* ... and moves on to the next one.
ReaderNext ==
    /\ pcM \notin {"off", "segv"}
    /\ rd # 0
    /\ rd' = nxt[rd]
    /\ UNCHANGED <<nserv, nxt, auth_servers, pcM, bad_server, tmp, pre, RuleVars, MacVars, ReadVars>>
    /\ UNCHANGED <<ValidateVars, BoolVars, ResolverVars>>

\* The list with its first entry moved to the end.
Rotated(list) == Tail(list) \o <<Head(list)>>

\* C1: a call with the head of a list of two or more entries leaves the same
\* entries, the former head last and the others in their order.
C1_HeadBecomesLast ==
    (pcM = "idle" /\ pre # <<>>)
        => ListFrom(nxt, auth_servers) = Rotated(pre)

\* C2: at every step of the call the list reachable from
\* config.auth_servers ends in NULL and is the old or the new list.
C2_NeverTorn ==
    (pcM \in {"walk", "setlast", "sethead", "clear"})
        => /\ NullTerminated(nxt, auth_servers)
           /\ ListFrom(nxt, auth_servers) \in {pre, Rotated(pre)}

(***************************************************************************)
(* The keyword table and the scanners of the three line parsers            *)
(***************************************************************************)
keywords == <<
    [name |-> <<"d","a","e","m","o","n">>,
     opcode |-> "oDaemon"],
    [name |-> <<"d","e","b","u","g","l","e","v","e","l">>,
     opcode |-> "oDebugLevel"],
    [name |-> <<"e","x","t","e","r","n","a","l","i","n","t","e","r","f","a","c","e">>,
     opcode |-> "oExternalInterface"],
    [name |-> <<"g","a","t","e","w","a","y","i","d">>,
     opcode |-> "oGatewayID"],
    [name |-> <<"d","e","v","i","d">>,
     opcode |-> "oDevID"],
    [name |-> <<"g","a","t","e","w","a","y","i","n","t","e","r","f","a","c","e">>,
     opcode |-> "oGatewayInterface"],
    [name |-> <<"g","a","t","e","w","a","y","a","d","d","r","e","s","s">>,
     opcode |-> "oGatewayAddress"],
    [name |-> <<"g","a","t","e","w","a","y","p","o","r","t">>,
     opcode |-> "oGatewayPort"],
    [name |-> <<"a","u","t","h","s","e","r","v","e","r">>,
     opcode |-> "oAuthServer"],
    [name |-> <<"p","o","r","t","a","l","s","e","r","v","e","r">>,
     opcode |-> "oPortalServer"],
    [name |-> <<"p","l","a","t","f","o","r","m","s","e","r","v","e","r">>,
     opcode |-> "oPlatServer"],
    [name |-> <<"l","o","g","s","e","r","v","e","r">>,
     opcode |-> "oLogServer"],
    [name |-> <<"h","t","t","p","d","m","a","x","c","o","n","n">>,
     opcode |-> "oHTTPDMaxConn"],
    [name |-> <<"h","t","t","p","d","n","a","m","e">>,
     opcode |-> "oHTTPDName"],
    [name |-> <<"h","t","t","p","d","r","e","a","l","m">>,
     opcode |-> "oHTTPDRealm"],
    [name |-> <<"h","t","t","p","d","u","s","e","r","n","a","m","e">>,
     opcode |-> "oHTTPDUsername"],
    [name |-> <<"h","t","t","p","d","p","a","s","s","w","o","r","d">>,
     opcode |-> "oHTTPDPassword"],
    [name |-> <<"c","l","i","e","n","t","t","i","m","e","o","u","t">>,
     opcode |-> "oClientTimeout"],
    [name |-> <<"c","h","e","c","k","i","n","t","e","r","v","a","l">>,
     opcode |-> "oCheckInterval"],
    [name |-> <<"a","u","t","h","i","n","t","e","r","v","a","l">>,
     opcode |-> "oAuthInterval"],
    [name |-> <<"s","y","s","l","o","g","f","a","c","i","l","i","t","y">>,
     opcode |-> "oSyslogFacility"],
    [name |-> <<"w","d","c","t","l","s","o","c","k","e","t">>,
     opcode |-> "oWdctlSocket"],
    [name |-> <<"h","o","s","t","n","a","m","e">>,
     opcode |-> "oServHostname"],
    [name |-> <<"s","s","l","a","v","a","i","l","a","b","l","e">>,
     opcode |-> "oServSSLAvailable"],
    [name |-> <<"s","s","l","p","o","r","t">>,
     opcode |-> "oServSSLPort"],
    [name |-> <<"h","t","t","p","p","o","r","t">>,
     opcode |-> "oServHTTPPort"],
    [name |-> <<"l","o","g","p","o","r","t">>,
     opcode |-> "oLogServPort"],
    [name |-> <<"p","a","t","h">>,
     opcode |-> "oServPath"],
    [name |-> <<"l","o","g","i","n","s","c","r","i","p","t","p","a","t","h","f","r","a","g","m","e","n","t">>,
     opcode |-> "oServLoginScriptPathFragment"],
    [name |-> <<"p","o","r","t","a","l","s","c","r","i","p","t","p","a","t","h","f","r","a","g","m","e","n","t">>,
     opcode |-> "oServPortalScriptPathFragment"],
    [name |-> <<"m","s","g","s","c","r","i","p","t","p","a","t","h","f","r","a","g","m","e","n","t">>,
     opcode |-> "oServMsgScriptPathFragment"],
    [name |-> <<"p","i","n","g","s","c","r","i","p","t","p","a","t","h","f","r","a","g","m","e","n","t">>,
     opcode |-> "oServPingScriptPathFragment"],
    [name |-> <<"a","u","t","h","s","c","r","i","p","t","p","a","t","h","f","r","a","g","m","e","n","t">>,
     opcode |-> "oServAuthScriptPathFragment"],
    [name |-> <<"f","i","r","e","w","a","l","l","r","u","l","e","s","e","t">>,
     opcode |-> "oFirewallRuleSet"],
    [name |-> <<"f","i","r","e","w","a","l","l","r","u","l","e">>,
     opcode |-> "oFirewallRule"],
    [name |-> <<"t","r","u","s","t","e","d","m","a","c","l","i","s","t">>,
     opcode |-> "oTrustedMACList"],
    [name |-> <<"h","t","m","l","m","e","s","s","a","g","e","f","i","l","e">>,
     opcode |-> "oHtmlMessageFile"],
    [name |-> <<"p","r","o","x","y","p","o","r","t">>,
     opcode |-> "oProxyPort"]>>

\* config_parse_token(cp): the opcode of the first keyword that matches,
\* case-insensitively; oBadOption when none does.
config_parse_token(cp) ==
    IF \E i \in 1..Len(keywords) : strcasecmp0(cp, keywords[i].name)
    THEN keywords[CHOOSE i \in 1..Len(keywords) :
                      /\ strcasecmp0(cp, keywords[i].name)
                      /\ \A j \in 1..(i - 1) : ~strcasecmp0(cp, keywords[j].name)].opcode
    ELSE "oBadOption"

kw_yes == <<"y","e","s">>
kw_no  == <<"n","o">>

\* yes and no are compared with strcmp.
parse_boolean_value_cased(s) ==
    IF strcmp0(s, kw_yes) THEN 1
    ELSE IF strcmp0(s, kw_no) THEN 0
    ELSE IF strcmp0(s, <<"1">>) THEN 1
    ELSE IF strcmp0(s, <<"0">>) THEN 0
    ELSE -1

\* parse_boolean_value(line)
parse_boolean_value(s) ==
    IF strcasecmp0(s, kw_yes) THEN 1
    ELSE IF strcasecmp0(s, kw_no) THEN 0
    ELSE IF strcmp0(s, <<"1">>) THEN 1
    ELSE IF strcmp0(s, <<"0">>) THEN 0
    ELSE -1

MaxBoolLen == 3     \* characters of an argument of parse_boolean_value

BoolChars == {"y", "Y", "e", "s", "S", "n", "N", "o", "0", "1"}

\* The arguments tried: every string of these characters up to the length.
BoolInputs == UNION {[1..n -> BoolChars] : n \in 0..MaxBoolLen}

\* One call of parse_boolean_value.
CallParseBoolean ==
    /\ pcB = "call"
    /\ boolRet' = parse_boolean_value(boolArg)
    /\ pcB' = "done"
    /\ UNCHANGED <<boolArg, RuleVars, MacVars, MarkVars, ReadVars, ValidateVars,
                   ResolverVars>>

Digits == <<"0", "1", "2", "3", "4", "5", "6", "7", "8", "9">>

DigitValue(c) == (CHOOSE i \in 1..10 : Digits[i] = c) - 1

RECURSIVE DecimalValue(_)
\* The value of a string of decimal digits (0 for the empty string).
DecimalValue(ds) ==
    IF ds = <<>> THEN 0
    ELSE 10 * DecimalValue(SubSeq(ds, 1, Len(ds) - 1)) + DigitValue(ds[Len(ds)])

\* The conversion strtol makes at the head of s, base 10: white space, an
\* optional sign, digits.  [ok, value]; ok is FALSE when there is no digit.
\* (The values of the lines tried are far from the limits of int.)
LeadingInt(s) ==
    Bind(CHOOSE q \in 1..(Len(s) + 1) :
             /\ q = Len(s) + 1 \/ ~isspace(s[q])
             /\ \A i \in 1..(q - 1) : isspace(s[i]), LAMBDA a :
    Bind(a <= Len(s) /\ s[a] \in {"+", "-"}, LAMBDA signed :
    Bind(IF signed THEN a + 1 ELSE a, LAMBDA b :
    Bind(CHOOSE q \in b..(Len(s) + 1) :
             /\ q = Len(s) + 1 \/ ~isdigit(s[q])
             /\ \A i \in b..(q - 1) : isdigit(s[i]), LAMBDA c :
    Bind(DecimalValue(SubSeq(s, b, c - 1)), LAMBDA v :
        [ok |-> c > b, value |-> IF signed /\ s[a] = "-" THEN 0 - v ELSE v])))))

\* atoi(s)
atoi(s) == IF LeadingInt(s).ok THEN LeadingInt(s).value ELSE 0

\* The field is cleared when nothing is converted, as atoi would.
sscanf_d_clearing(s, field) == IF LeadingInt(s).ok THEN LeadingInt(s).value ELSE 0

\* sscanf(s, "%d", &field): the field afterwards.
sscanf_d(s, field) == IF LeadingInt(s).ok THEN LeadingInt(s).value ELSE field

\* strstr(p, "\r\n"): the index of the first CR LF in the string at p, 0 for NULL
strstr_crlf(buf, p) ==
    IF \E i \in p..(StrEnd(buf, p) - 2) : buf[i] = CR /\ buf[i + 1] = LF
    THEN CHOOSE i \in p..(StrEnd(buf, p) - 2) :
             /\ buf[i] = CR /\ buf[i + 1] = LF
             /\ \A j \in p..(i - 1) : ~(buf[j] = CR /\ buf[j + 1] = LF)
    ELSE 0

\* while (*p1 && len) { if (*p1 == ' ') p1++; else break; ... }
SkipSpaces(buf, p) ==
    CHOOSE q \in p..(Len(buf) + 1) \cup {p} :
        /\ At(buf, q) # SP
        /\ \A i \in p..(q - 1) : At(buf, i) = SP

\* The scanning of one line by config_read, on the line as fgets stored it:
\* s, whether p1 is set and has text, and the value p1 points to.
TopScan(l) ==
    Bind(l \o <<NUL>>, LAMBDA b0 :
    Bind(StrEnd(b0, 1) - 1, LAMBDA n :
    Bind(IF At(b0, n) = LF THEN SetAt(b0, n, NUL) ELSE b0, LAMBDA b1 :
    Bind(IF strchr(b1, 1, SP) # 0 THEN strchr(b1, 1, SP)
         ELSE strchr(b1, 1, TAB), LAMBDA c1 :
    Bind(IF c1 # 0 THEN SetAt(b1, c1, NUL) ELSE b1, LAMBDA b2 :
    Bind(IF c1 # 0 THEN SkipSpaces(b2, c1 + 1) ELSE 0, LAMBDA p1 :
    Bind(IF p1 = 0 THEN 0
         ELSE IF strchr(b2, p1, SP) # 0 THEN strchr(b2, p1, SP)
         ELSE IF strstr_crlf(b2, p1) # 0 THEN strstr_crlf(b2, p1)
         ELSE strchr(b2, p1, LF), LAMBDA c2 :
    Bind(IF c2 # 0 THEN SetAt(b2, c2, NUL) ELSE b2, LAMBDA b3 :
        [s        |-> CStr(b3, 1),
         hasValue |-> p1 # 0 /\ At(b3, p1) # NUL,
         comment  |-> strncmp0(CStr(b3, 1), <<"#">>),
         p1       |-> IF p1 # 0 THEN CStr(b3, p1) ELSE NULL]))))))))

\* The scanning of one line by parse_server and parse_firewall_ruleset, on
\* the cleared buffer the line was read into: whether the line ends the
\* block, whether it is empty, its first word p1, and the buffer and the
\* pointer p2 after the word.
BlockScan(l) ==
    Bind(l \o <<NUL, NUL>>, LAMBDA b0 :
    Bind(SkipBlanks(b0, 1), LAMBDA p1 :
    Bind(IF strchr(b0, p1, "#") # 0 THEN strchr(b0, p1, "#")
         ELSE IF strchr(b0, p1, CR) # 0 THEN strchr(b0, p1, CR)
         ELSE strchr(b0, p1, LF), LAMBDA c :
    Bind(IF c # 0 THEN SetAt(b0, c, NUL) ELSE b0, LAMBDA b1 :
    Bind(WordEnd(b1, p1), LAMBDA e :
    Bind(SetAt(b1, e, NUL), LAMBDA b2 :
        [closes |-> strchr(b0, 1, "}") # 0,
         empty  |-> At(b1, p1) = NUL,
         p1     |-> CStr(b2, p1),
         buf    |-> b2,
         p2     |-> SkipBlanks(b2, e + 1)]))))))

(***************************************************************************)
(* The configuration record and the lists of servers                       *)
(***************************************************************************)
\* A default of conf.h, as a string of one symbolic character.
Default(name) == <<name>>

\* The numeric defaults of conf.h, which is not part of this file: each
\* stands for itself, as a number of its own that no line tried sets.
DefaultNumbers ==
    [DEFAULT_DEBUGLEVEL |-> 1001,
     DEFAULT_HTTPDMAXCONN |-> 1002,
     DEFAULT_GATEWAYPORT |-> 1003,
     DEFAULT_CLIENTTIMEOUT |-> 1004,
     DEFAULT_CHECKINTERVAL |-> 1005,
     DEFAULT_AUTHINTERVAL |-> 1006,
     DEFAULT_SYSLOG_FACILITY |-> 1007,
     DEFAULT_AUTHSERVPORT |-> 1008,
     DEFAULT_AUTHSERVSSLPORT |-> 1009,
     DEFAULT_AUTHSERVSSLAVAILABLE |-> 1010,
     DEFAULT_DAEMON |-> 1011]

DefaultInt(name) == DefaultNumbers[name]

\* The scalar fields config_init sets (gw_id is left as the zeroed static).
config_init ==
    [htmlmsgfile        |-> Default("DEFAULT_HTMLMSGFILE"),
     debuglevel         |-> DefaultInt("DEFAULT_DEBUGLEVEL"),
     httpdmaxconn       |-> DefaultInt("DEFAULT_HTTPDMAXCONN"),
     external_interface |-> NULL,
     gw_id              |-> NULL,
     dev_id             |-> Default("DEFAULT_DEV"),
     gw_interface       |-> NULL,
     gw_address         |-> NULL,
     gw_port            |-> DefaultInt("DEFAULT_GATEWAYPORT"),
     httpdname          |-> NULL,
     httpdrealm         |-> Default("DEFAULT_HTTPDNAME"),
     httpdusername      |-> NULL,
     httpdpassword      |-> NULL,
     clienttimeout      |-> DefaultInt("DEFAULT_CLIENTTIMEOUT"),
     checkinterval      |-> DefaultInt("DEFAULT_CHECKINTERVAL"),
     authinterval       |-> DefaultInt("DEFAULT_AUTHINTERVAL"),
     syslog_facility    |-> DefaultInt("DEFAULT_SYSLOG_FACILITY"),
     daemon             |-> -1,
     wdctl_sock         |-> Default("DEFAULT_WDCTL_SOCK"),
     proxy_port         |-> 0]

\* The cases of the switch of config_read that assign one scalar field.
TopAssign(cfg, opcode, p1) ==
    CASE opcode = "oDaemon" ->
            IF cfg.daemon = -1 /\ parse_boolean_value(p1) # -1
            THEN [cfg EXCEPT !.daemon = parse_boolean_value(p1)]
            ELSE cfg
      [] opcode = "oExternalInterface" -> [cfg EXCEPT !.external_interface = p1]
      [] opcode = "oGatewayID"         -> [cfg EXCEPT !.gw_id = p1]
      [] opcode = "oDevID"             -> [cfg EXCEPT !.dev_id = p1]
      [] opcode = "oGatewayInterface"  -> [cfg EXCEPT !.gw_interface = p1]
      [] opcode = "oGatewayAddress"    -> [cfg EXCEPT !.gw_address = p1]
      [] opcode = "oGatewayPort"       -> [cfg EXCEPT !.gw_port = sscanf_d(p1, @)]
      [] opcode = "oHTTPDName"         -> [cfg EXCEPT !.httpdname = p1]
      [] opcode = "oHTTPDMaxConn"      -> [cfg EXCEPT !.httpdmaxconn = sscanf_d(p1, @)]
      [] opcode = "oHTTPDRealm"        -> [cfg EXCEPT !.httpdrealm = p1]
      [] opcode = "oHTTPDUsername"     -> [cfg EXCEPT !.httpdusername = p1]
      [] opcode = "oHTTPDPassword"     -> [cfg EXCEPT !.httpdpassword = p1]
      [] opcode = "oCheckInterval"     -> [cfg EXCEPT !.checkinterval = sscanf_d(p1, @)]
      [] opcode = "oAuthInterval"      -> [cfg EXCEPT !.authinterval = sscanf_d(p1, @)]
      [] opcode = "oWdctlSocket"       -> [cfg EXCEPT !.wdctl_sock = p1]
      [] opcode = "oClientTimeout"     -> [cfg EXCEPT !.clienttimeout = sscanf_d(p1, @)]
      [] opcode = "oSyslogFacility"    -> [cfg EXCEPT !.syslog_facility = sscanf_d(p1, @)]
      [] opcode = "oHtmlMessageFile"   -> [cfg EXCEPT !.htmlmsgfile = p1]
      [] opcode = "oProxyPort"         -> [cfg EXCEPT !.proxy_port = sscanf_d(p1, @)]
      [] OTHER -> cfg

\* LogServer opens a server block too.
ServerTypeLogOpens(opcode) ==
    CASE opcode = "oAuthServer"   -> 1
      [] opcode = "oPortalServer" -> 2
      [] opcode = "oPlatServer"   -> 3
      [] opcode = "oLogServer"    -> 1
      [] OTHER -> 0

\* The kind of server block an opcode opens (the type argument of
\* parse_server), 0 for the other opcodes.
ServerType(opcode) ==
    CASE opcode = "oAuthServer"   -> 1
      [] opcode = "oPortalServer" -> 2
      [] opcode = "oPlatServer"   -> 3
      [] OTHER -> 0

\* The locals of parse_server after "Defaults".
ServerDefaults ==
    [host                     |-> NULL,
     path                     |-> Default("DEFAULT_AUTHSERVPATH"),
     loginscriptpathfragment  |-> Default("DEFAULT_AUTHSERVLOGINPATHFRAGMENT"),
     portalscriptpathfragment |-> Default("DEFAULT_AUTHSERVPORTALPATHFRAGMENT"),
     msgscriptpathfragment    |-> Default("DEFAULT_AUTHSERVMSGPATHFRAGMENT"),
     pingscriptpathfragment   |-> Default("DEFAULT_AUTHSERVPINGPATHFRAGMENT"),
     authscriptpathfragment   |-> Default("DEFAULT_AUTHSERVAUTHPATHFRAGMENT"),
     http_port                |-> DefaultInt("DEFAULT_AUTHSERVPORT"),
     ssl_port                 |-> DefaultInt("DEFAULT_AUTHSERVSSLPORT"),
     ssl_available            |-> DefaultInt("DEFAULT_AUTHSERVSSLAVAILABLE")]

\* GatewayInterface is let through as well.
ServerOpcodesWider ==
    {"oServHostname", "oServPath", "oServLoginScriptPathFragment",
     "oServPortalScriptPathFragment", "oServMsgScriptPathFragment",
     "oServPingScriptPathFragment", "oServAuthScriptPathFragment",
     "oServSSLPort", "oServHTTPPort", "oLogServPort", "oServSSLAvailable",
     "oGatewayInterface"}

ServerOpcodes ==
    {"oServHostname", "oServPath", "oServLoginScriptPathFragment",
     "oServPortalScriptPathFragment", "oServMsgScriptPathFragment",
     "oServPingScriptPathFragment", "oServAuthScriptPathFragment",
     "oServSSLPort", "oServHTTPPort", "oLogServPort", "oServSSLAvailable"}

\* The cases of the switch of parse_server: the locals afterwards.
ServerAssign(sv, opcode, p2) ==
    CASE opcode = "oServHostname" -> [sv EXCEPT !.host = p2]
      [] opcode = "oServPath"     -> [sv EXCEPT !.path = p2]
      [] opcode = "oServLoginScriptPathFragment" ->
            [sv EXCEPT !.loginscriptpathfragment = p2]
      [] opcode = "oServPortalScriptPathFragment" ->
            [sv EXCEPT !.portalscriptpathfragment = p2]
      [] opcode = "oServMsgScriptPathFragment" ->
            [sv EXCEPT !.msgscriptpathfragment = p2]
      [] opcode = "oServPingScriptPathFragment" ->
            [sv EXCEPT !.pingscriptpathfragment = p2]
      [] opcode = "oServAuthScriptPathFragment" ->
            [sv EXCEPT !.authscriptpathfragment = p2]
      [] opcode = "oServSSLPort"  -> [sv EXCEPT !.ssl_port = atoi(p2)]
      [] opcode = "oServHTTPPort" -> [sv EXCEPT !.http_port = atoi(p2)]
      [] opcode = "oServSSLAvailable" ->
            [sv EXCEPT !.ssl_available =
                IF parse_boolean_value(p2) < 0 THEN 0 ELSE parse_boolean_value(p2)]
      [] OTHER -> sv

\* The two ports change places in the t_serv.
NewServerPortsSwapped(sv, type, ip) ==
    [serv_hostname |-> sv.host,
     serv_use_ssl  |-> sv.ssl_available,
     serv_path     |-> sv.path,
     serv_login_script_path_fragment  |-> sv.loginscriptpathfragment,
     serv_portal_script_path_fragment |-> sv.portalscriptpathfragment,
     serv_msg_script_path_fragment    |-> sv.msgscriptpathfragment,
     serv_ping_script_path_fragment   |-> sv.pingscriptpathfragment,
     serv_auth_script_path_fragment   |-> sv.authscriptpathfragment,
     serv_http_port |-> sv.ssl_port,
     serv_ssl_port  |-> sv.http_port,
     last_ip        |-> IF type \in {2, 3} THEN ip ELSE NULL]

\* The t_serv filled in from the locals; ip is what wd_gethostbyname gave
\* for the kinds that resolve the host name (NULL for no address).
NewServer(sv, type, ip) ==
    [serv_hostname |-> sv.host,
     serv_use_ssl  |-> sv.ssl_available,
     serv_path     |-> sv.path,
     serv_login_script_path_fragment  |-> sv.loginscriptpathfragment,
     serv_portal_script_path_fragment |-> sv.portalscriptpathfragment,
     serv_msg_script_path_fragment    |-> sv.msgscriptpathfragment,
     serv_ping_script_path_fragment   |-> sv.pingscriptpathfragment,
     serv_auth_script_path_fragment   |-> sv.authscriptpathfragment,
     serv_http_port |-> sv.http_port,
     serv_ssl_port  |-> sv.ssl_port,
     last_ip        |-> IF type \in {2, 3} THEN ip ELSE NULL]

\* The last record of the list that starts at head (head is not NULL).
LastOf(nx, head) == LET l == ListFrom(nx, head) IN l[Len(l)]

\* The new record n is put at the head of the list of its kind.
LinkServerAtHead(heads, nx, type, n) ==
    [heads |-> [heads EXCEPT ![type] = n], nxt |-> Append(nx, heads[type])]

\* The three heads and the next fields after the new record n is put at the
\* tail of the list of its kind.
LinkServer(heads, nx, type, n) ==
    LET nx1 == Append(nx, 0)
    IN  IF heads[type] = 0
        THEN [heads |-> [heads EXCEPT ![type] = n], nxt |-> nx1]
        ELSE [heads |-> heads,
              nxt   |-> [nx1 EXCEPT ![LastOf(nx, heads[type])] = n]]

(***************************************************************************)
(* Spec: config_read, one line of the file at a time                       *)
(***************************************************************************)
MaxLines == 6       \* lines read from the configuration file

\* opens a ruleset block
l_ruleset1 == <<"F","i","r","e","w","a","l","l","R","u","l","e","S","e","t",SP,"r","s","1",SP,"{",LF>>
\* opens another
l_ruleset2 == <<"F","i","r","e","w","a","l","l","R","u","l","e","S","e","t",SP,"r","s","2",SP,"{",LF>>
\* closes a block
l_close == <<"}",LF>>
\* a rule
l_rule_a == <<"F","i","r","e","w","a","l","l","R","u","l","e",SP,"a","l","l","o","w",SP,"t","c","p",SP,"p","o","r","t",SP,"8","0",LF>>
\* another, indented
l_rule_b == <<SP,SP,"F","i","r","e","w","a","l","l","R","u","l","e",SP,"b","l","o","c","k",SP,"t","o",SP,"1","0",".","0",".","0",".","0","/","8",LF>>
\* a rule with a bad port
l_rule_bad == <<"F","i","r","e","w","a","l","l","R","u","l","e",SP,"a","l","l","o","w",SP,"p","o","r","t",SP,"a","b","c",LF>>
\* not a keyword, with a value
l_bogus_v == <<"b","o","g","u","s",SP,"x",LF>>
\* not a keyword, alone on its line
l_bogus == <<"b","o","g","u","s",LF>>
\* a comment
l_comment == <<"#",SP,"b","o","g","u","s",SP,"x",LF>>
\* opens a server block
l_auth == <<"A","u","t","h","S","e","r","v","e","r",SP,"{",LF>>
\* a server field
l_host == <<"H","o","s","t","n","a","m","e",SP,"h","1",LF>>
\* a top-level directive
l_gwif == <<"G","a","t","e","w","a","y","I","n","t","e","r","f","a","c","e",SP,"e","t","h","0",LF>>

\* a user name for the web server
l_user == <<"H","T","T","P","D","U","s","e","r","N","a","m","e",SP,"a","d","m","i","n",LF>>
\* trusted MACs, one of them twice
l_macs == <<"T","r","u","s","t","e","d","M","A","C","L","i","s","t",SP,"A","A",":","0","1",",","B","B",":","0","2",",","B","B",":","0","2",LF>>

Lines == {l_ruleset1, l_ruleset2, l_close, l_rule_a,
          l_rule_b, l_rule_bad, l_bogus_v, l_bogus,
          l_comment, l_auth, l_host, l_gwif, l_user, l_macs}

(***************************************************************************)
(* SpecTop: config_read on files of top-level directives                   *)
(***************************************************************************)
MaxTopLines == 3    \* lines read from a file of top-level directives

\* the numeric directives, with a value that is no number
l_gwport_bad == <<"G","a","t","e","w","a","y","P","o","r","t",SP,"a","b","c",LF>>
l_maxconn_bad == <<"H","T","T","P","D","M","a","x","C","o","n","n",SP,"x","1","0",LF>>
l_check_bad == <<"C","h","e","c","k","I","n","t","e","r","v","a","l",SP,"-",LF>>
l_authint_bad == <<"A","u","t","h","I","n","t","e","r","v","a","l",SP,"n","o","n","e",LF>>
l_timeout_bad == <<"C","l","i","e","n","t","T","i","m","e","o","u","t",SP,".","5",LF>>
l_syslog_bad == <<"S","y","s","l","o","g","F","a","c","i","l","i","t","y",SP,"d","a","e","m","o","n",LF>>
l_proxy_bad == <<"P","r","o","x","y","P","o","r","t",SP,"+",LF>>
\* and with a value that starts with one
l_gwport == <<"G","a","t","e","w","a","y","P","o","r","t",SP,"8","0","8","0",LF>>
l_check == <<"C","h","e","c","k","I","n","t","e","r","v","a","l",SP,"6","0","s",LF>>
l_proxy == <<"P","r","o","x","y","P","o","r","t",SP,"-","1",LF>>
\* the password of the web server's user
l_pass == <<"H","T","T","P","D","P","a","s","s","w","o","r","d",SP,"s","e","c","r","e","t",LF>>
\* three trusted MACs, a blank after the first comma
l_macs3 == <<"T","r","u","s","t","e","d","M","A","C","L","i","s","t",SP,"A","A",":","B","B",":","C","C",":","D","D",":","E","E",":","F","F",",",SP,"a","a",":","b","b",":","c","c",":","d","d",":","e","e",":","f","f",",","A","A",":","B","B",":","C","C",":","D","D",":","E","E",":","F","F",LF>>

TopLines == {l_gwport_bad, l_maxconn_bad, l_check_bad, l_authint_bad,
             l_timeout_bad, l_syslog_bad, l_proxy_bad, l_gwport, l_check,
             l_proxy, l_user, l_pass, l_macs, l_macs3}

(***************************************************************************)
(* SpecDaemon: the daemonize flag, from the command line to the default    *)
(***************************************************************************)
l_daemon_yes == <<"D","a","e","m","o","n",SP,"y","e","s",LF>>
l_daemon_YES == <<"d","a","e","m","o","n",SP,"Y","E","S",LF>>
l_daemon_no == <<"D","a","e","m","o","n",SP,"n","o",LF>>
l_daemon_1 == <<"D","a","e","m","o","n",SP,"1",LF>>
l_daemon_0 == <<"D","a","e","m","o","n",SP,"0",LF>>
l_daemon_maybe == <<"D","a","e","m","o","n",SP,"m","a","y","b","e",LF>>

DaemonLines == {l_daemon_yes, l_daemon_YES, l_daemon_no, l_daemon_1, l_daemon_0,
                l_daemon_maybe, l_gwport}

\* config.daemon when config_read is called: as config_init left it, or as
\* the command line set it.
CommandLineDaemon == {-1, 0, 1}

(***************************************************************************)
(* SpecServer: config_read on files of server blocks                       *)
(***************************************************************************)
\* the other two kinds of server block
l_portal == <<"P","o","r","t","a","l","S","e","r","v","e","r",SP,"{",LF>>
l_plat == <<"P","l","a","t","f","o","r","m","S","e","r","v","e","r",SP,"{",LF>>
\* the fields of a server
l_path == <<"P","a","t","h",SP,"/","a","/",LF>>
l_path2 == <<TAB,"p","a","t","h",SP,"/","b","/",SP,LF>>
l_login == <<"L","o","g","i","n","S","c","r","i","p","t","P","a","t","h","F","r","a","g","m","e","n","t",SP,"i","n","?",LF>>
l_portalfrag == <<"P","o","r","t","a","l","S","c","r","i","p","t","P","a","t","h","F","r","a","g","m","e","n","t",SP,"p","?",LF>>
l_msgfrag == <<"M","s","g","S","c","r","i","p","t","P","a","t","h","F","r","a","g","m","e","n","t",SP,"m","?",LF>>
l_pingfrag == <<"P","i","n","g","S","c","r","i","p","t","P","a","t","h","F","r","a","g","m","e","n","t",SP,"g","?",LF>>
l_authfrag == <<"A","u","t","h","S","c","r","i","p","t","P","a","t","h","F","r","a","g","m","e","n","t",SP,"a","?",LF>>
l_httpport == <<"H","T","T","P","P","o","r","t",SP,"8","0","8","0",LF>>
l_sslport == <<"S","S","L","P","o","r","t",SP,"4","4","3","0",LF>>
l_sslavail == <<"S","S","L","A","v","a","i","l","a","b","l","e",SP,"y","e","s",LF>>

ServerOpeners == {l_auth, l_portal, l_plat}

ServerLines == {l_host, l_path, l_path2, l_login, l_portalfrag, l_msgfrag,
                l_pingfrag, l_authfrag, l_httpport, l_sslport, l_sslavail,
                l_close}

(***************************************************************************)
(* SpecTable: config_read on files with table keywords at the top level    *)
(***************************************************************************)
l_logserver == <<"L","o","g","S","e","r","v","e","r",SP,"{",LF>>
l_logport == <<"L","o","g","P","o","r","t",SP,"5","1","4",LF>>

\* Lines read at the top level: directives, block openers, and lines whose
\* keyword belongs inside a block.
TableTopLines == {l_gwif, l_macs, l_auth, l_logserver, l_host, l_path,
                  l_httpport, l_sslavail, l_logport, l_rule_a}

\* Lines read inside the server block.
TableBlockLines == {l_host, l_close}

\* What wd_gethostbyname may answer: no address, or the address.
ip_resolved == <<"1", ".", "2", ".", "3", ".", "4">>
ResolverAnswers == {NULL, ip_resolved}

\* The scans of the lines, made once.
TopTok == [l \in Lines \cup TopLines \cup ServerOpeners \cup DaemonLines
                   \cup TableTopLines |-> TopScan(l)]
BlockTok == [l \in Lines \cup ServerLines |-> BlockScan(l)]

\* No rule parse is under way.
RuleOff ==
    /\ leftover = <<>>
    /\ ruleset = <<>>
    /\ rulesets = <<>>
    /\ ret = 0
    /\ retAt = 0
    /\ pcR = "off"

\* config_init: the trusted-MAC list is empty.
MacOff ==
    /\ trustedmaclist = <<>>
    /\ macArg = <<>>
    /\ macCalls = 0

\* config_init: no authentication server.
MarkOff ==
    /\ nserv = 0
    /\ nxt = <<>>
    /\ auth_servers = 0
    /\ pcM = "off"
    /\ bad_server = 0
    /\ tmp = 0
    /\ pre = <<>>
    /\ rd = 0

\* config_read has not been called.
ReadOff ==
    /\ pc = "off"
    /\ line = <<>>
    /\ linenum = 0
    /\ nread = 0
    /\ eof = FALSE
    /\ exitAt = 0
    /\ blockType = 0
    /\ srv = ServerDefaults
    /\ rsname = <<>>
    /\ config = config_init
    /\ portal_servers = 0
    /\ plat_servers = 0
    /\ serv = <<>>
    /\ calls = <<>>
    /\ missing_parms = 0
    /\ reported = {}
    /\ lookups = <<>>

\* No call of parse_boolean_value is under way.
BoolOff ==
    /\ boolArg = <<>>
    /\ boolRet = 0
    /\ pcB = "off"

\* The state config_init leaves, at the call of config_read.
Init ==
    /\ pc = "open"
    /\ line = <<>>
    /\ linenum = 0
    /\ nread = 0
    /\ eof = FALSE
    /\ exitAt = 0
    /\ blockType = 0
    /\ srv = ServerDefaults
    /\ rsname = <<>>
    /\ config = config_init
    /\ portal_servers = 0
    /\ plat_servers = 0
    /\ serv = <<>>
    /\ calls = <<>>
    /\ missing_parms = 0
    /\ reported = {}
    /\ lookups = <<>>
    /\ RuleOff
    /\ MacOff
    /\ MarkOff
    /\ BoolOff

\* No call of _parse_firewall_rule in this step.
NoRuleParsed == ret' = 0 /\ retAt' = 0 /\ UNCHANGED <<leftover, ruleset, rulesets, pcR>>

\* Nor one of parse_firewall_ruleset.
NoRuleCall == NoRuleParsed /\ UNCHANGED calls

\* The record of a call of parse_firewall_ruleset(name) in calls.
BlockOpened(name) == [name |-> name, ret |-> 0, rule |-> NULL]

\* exit() at source line n
Exit(n) == pc' = "exited" /\ exitAt' = n

\* fopen succeeds.
FileOpens ==
    /\ pc = "open"
    /\ pc' = "top"
    /\ UNCHANGED <<line, linenum, nread, eof, exitAt, blockType, srv, rsname,
                   config, portal_servers, plat_servers, serv, calls>>
    /\ UNCHANGED <<RuleVars, MacVars, MarkVars>>
    /\ UNCHANGED <<ValidateVars, BoolVars, ResolverVars>>

\* fopen fails: exit(1).
FileOpenFails ==
    /\ pc = "open"
    /\ Exit(791)
    /\ UNCHANGED <<line, linenum, nread, eof, blockType, srv, rsname,
                   config, portal_servers, plat_servers, serv, calls>>
    /\ UNCHANGED <<RuleVars, MacVars, MarkVars>>
    /\ UNCHANGED <<ValidateVars, BoolVars, ResolverVars>>

\* One turn of the while loop of config_read on the line l.
ReadTopLine(l) ==
    /\ pc = "top"
    /\ ~eof
    /\ nread < MaxLines
    /\ line' = l
    /\ nread' = nread + 1
    /\ linenum' = linenum + 1
    /\ NoRuleParsed
    /\ \E t \in {TopTok[l]} : \E op \in {config_parse_token(t.s)} :
           IF ~(t.hasValue /\ ~t.comment)
           THEN UNCHANGED <<pc, exitAt, blockType, srv, rsname, config, trustedmaclist, calls>>
           ELSE IF op = "oBadOption"
           THEN /\ Exit(903)
                /\ UNCHANGED <<blockType, srv, rsname, config, trustedmaclist, calls>>
           ELSE IF ServerType(op) # 0
           THEN /\ pc' = "server"
                /\ blockType' = ServerType(op)
                /\ srv' = ServerDefaults
                /\ UNCHANGED <<exitAt, rsname, config, trustedmaclist, calls>>
           ELSE IF op = "oFirewallRuleSet"
           THEN /\ pc' = "ruleset"
                /\ rsname' = t.p1
                /\ calls' = Append(calls, BlockOpened(t.p1))
                /\ UNCHANGED <<exitAt, blockType, srv, config, trustedmaclist>>
           ELSE IF op = "oTrustedMACList"
           THEN /\ trustedmaclist' = parse_trusted_mac_list(trustedmaclist, t.p1)
                /\ UNCHANGED <<pc, exitAt, blockType, srv, rsname, config, calls>>
           ELSE /\ config' = TopAssign(config, op, t.p1)
                /\ UNCHANGED <<pc, exitAt, blockType, srv, rsname, trustedmaclist, calls>>
    /\ UNCHANGED <<eof, portal_servers, plat_servers, serv, macArg, macCalls, MarkVars>>
    /\ UNCHANGED <<ValidateVars, BoolVars, ResolverVars>>

\* An endpoint whose host name does not resolve is dropped.
CloseServerBlockDropsUnresolved(ip) ==
    IF srv.host = NULL
    THEN UNCHANGED <<nserv, nxt, serv, auth_servers, portal_servers, plat_servers,
                     lookups>>
    ELSE LET n == nserv + 1
             k == LinkServer(<<auth_servers, portal_servers, plat_servers>>,
                             nxt, blockType, n)
         IN  /\ lookups' = IF blockType \in {2, 3}
                           THEN Append(lookups, [host |-> srv.host, answer |-> ip])
                           ELSE lookups
             /\ IF blockType \in {2, 3} /\ ip = NULL
                THEN UNCHANGED <<nserv, nxt, serv, auth_servers, portal_servers,
                                 plat_servers>>
                ELSE /\ nserv' = n
                     /\ serv' = Append(serv, NewServer(srv, blockType, ip))
                     /\ nxt' = k.nxt
                     /\ auth_servers' = k.heads[1]
                     /\ portal_servers' = k.heads[2]
                     /\ plat_servers' = k.heads[3]

\* The end of parse_server, after its loop: nothing without a host name,
\* else the new record is put at the tail of the list of its kind.
CloseServerBlock(ip) ==
    IF srv.host = NULL
    THEN UNCHANGED <<nserv, nxt, serv, auth_servers, portal_servers, plat_servers,
                     lookups>>
    ELSE LET n == nserv + 1
             k == LinkServer(<<auth_servers, portal_servers, plat_servers>>,
                             nxt, blockType, n)
         IN  /\ nserv' = n
             /\ lookups' = IF blockType \in {2, 3}
                           THEN Append(lookups, [host |-> srv.host, answer |-> ip])
                           ELSE lookups
             /\ serv' = Append(serv, NewServer(srv, blockType, ip))
             /\ nxt' = k.nxt
             /\ auth_servers' = k.heads[1]
             /\ portal_servers' = k.heads[2]
             /\ plat_servers' = k.heads[3]

\* The resolver is asked only for a portal or platform server with a host.
ResolverAsked == blockType \in {2, 3} /\ srv.host # NULL

\* One turn of the loop of parse_server on the line l, or the end of the
\* loop and of the function when the line holds a '}'.
ReadServerLine(l, ip) ==
    /\ pc = "server"
    /\ nread < MaxLines
    /\ line' = l
    /\ nread' = nread + 1
    /\ NoRuleCall
    /\ \E b \in {BlockTok[l]} : \E op \in {config_parse_token(b.p1)} :
           IF b.closes
           THEN /\ ResolverAsked \/ ip = NULL
                /\ CloseServerBlock(ip)
                /\ pc' = "top"
                /\ UNCHANGED <<linenum, exitAt, srv>>
           ELSE /\ ip = NULL
                /\ linenum' = linenum + 1
                /\ UNCHANGED <<nserv, nxt, serv, auth_servers, portal_servers,
                               plat_servers, lookups>>
                /\ IF b.empty
                   THEN UNCHANGED <<pc, exitAt, srv>>
                   ELSE IF op \in ServerOpcodes
                   THEN /\ srv' = ServerAssign(srv, op, CStr(b.buf, b.p2))
                        /\ UNCHANGED <<pc, exitAt>>
                   ELSE /\ Exit(420)
                        /\ UNCHANGED srv
    /\ UNCHANGED <<eof, blockType, rsname, config, MacVars,
                   pcM, bad_server, tmp, pre, rd>>
    /\ UNCHANGED <<ValidateVars, BoolVars>>

\* fgets finds the end of the file inside a server block: the loop and the
\* function end as at a '}'.
ServerBlockEOF(ip) ==
    /\ pc = "server"
    /\ ResolverAsked \/ ip = NULL
    /\ CloseServerBlock(ip)
    /\ pc' = "top"
    /\ eof' = TRUE
    /\ NoRuleCall
    /\ UNCHANGED <<line, linenum, nread, exitAt, blockType, srv, rsname, config,
                   MacVars, pcM, bad_server, tmp, pre, rd>>
    /\ UNCHANGED <<ValidateVars, BoolVars>>

\* What parse_firewall_ruleset does with the value _parse_firewall_rule
\* returned: nothing, the loop goes on.
AfterRule(r) == UNCHANGED <<pc, exitAt>>

\* One turn of the loop of parse_firewall_ruleset on the line l, or the end
\* of the loop when the line holds a '}'.  The value _parse_firewall_rule
\* returns is not used.
ReadRulesetLine(l) ==
    /\ pc = "ruleset"
    /\ nread < MaxLines
    /\ line' = l
    /\ nread' = nread + 1
    /\ \E b \in {BlockTok[l]} :
           IF b.closes
           THEN /\ pc' = "top"
                /\ NoRuleCall
                /\ UNCHANGED <<linenum, exitAt>>
           ELSE /\ linenum' = linenum + 1
                /\ IF b.empty
                   THEN NoRuleCall /\ UNCHANGED <<pc, exitAt>>
                   ELSE IF config_parse_token(b.p1) = "oFirewallRule"
                   THEN \E r \in {_parse_firewall_rule(rulesets, rsname, b.buf, b.p2)} :
                        /\ leftover' = CStr(b.buf, b.p2)
                        /\ ruleset' = rsname
                        /\ ret' = r.ret
                        /\ retAt' = r.at
                        /\ rulesets' = r.rulesets
                        /\ calls' = Append(calls, [name |-> rsname, ret |-> r.ret,
                                                   rule |-> r.rule])
                        /\ AfterRule(r.ret)
                        /\ UNCHANGED pcR
                   ELSE /\ Exit(608)
                        /\ NoRuleCall
    /\ UNCHANGED <<eof, blockType, srv, rsname, config, portal_servers,
                   plat_servers, serv, MacVars, MarkVars>>
    /\ UNCHANGED <<ValidateVars, BoolVars, ResolverVars>>

\* fgets finds the end of the file inside a ruleset block.
RulesetBlockEOF ==
    /\ pc = "ruleset"
    /\ pc' = "top"
    /\ eof' = TRUE
    /\ NoRuleCall
    /\ UNCHANGED <<line, linenum, nread, exitAt, blockType, srv, rsname, config,
                   portal_servers, plat_servers, serv, MacVars, MarkVars>>
    /\ UNCHANGED <<ValidateVars, BoolVars, ResolverVars>>

\* The test of the password lacks its negation.
MissingPasswordNoNegation(cfg) == cfg.httpdusername # NULL /\ cfg.httpdpassword # NULL

\* The test after the loop of config_read: a user name without a password.
MissingPassword(cfg) == cfg.httpdusername # NULL /\ cfg.httpdpassword = NULL

\* The loop of config_read ends (end of file): the user-name test, fclose
\* and the return.
EndOfFile ==
    /\ pc = "top"
    /\ IF MissingPassword(config)
       THEN Exit(935) /\ reported' = reported \cup {"HTTPDPassword"}
       ELSE pc' = "done" /\ UNCHANGED <<exitAt, reported>>
    /\ NoRuleCall
    /\ UNCHANGED <<line, linenum, nread, eof, blockType, srv, rsname, config,
                   portal_servers, plat_servers, serv, MacVars, MarkVars>>
    /\ UNCHANGED <<missing_parms, BoolVars, ResolverVars>>

\* The default is stored whatever the flag holds.
config_init_override_always ==
    /\ pc = "done"
    /\ config' = [config EXCEPT !.daemon = DefaultInt("DEFAULT_DAEMON")]
    /\ pc' = "ready"
    /\ NoRuleCall
    /\ UNCHANGED <<line, linenum, nread, eof, exitAt, blockType, srv, rsname,
                   portal_servers, plat_servers, serv, MacVars, MarkVars>>
    /\ UNCHANGED <<ValidateVars, BoolVars, ResolverVars>>

\* config_init_override(), called once config_read has returned.
config_init_override ==
    /\ pc = "done"
    /\ config' = IF config.daemon = -1
                 THEN [config EXCEPT !.daemon = DefaultInt("DEFAULT_DAEMON")]
                 ELSE config
    /\ pc' = "ready"
    /\ NoRuleCall
    /\ UNCHANGED <<line, linenum, nread, eof, exitAt, blockType, srv, rsname,
                   portal_servers, plat_servers, serv, MacVars, MarkVars>>
    /\ UNCHANGED <<ValidateVars, BoolVars, ResolverVars>>

\* config_notnull(parm, parmname): the names it reports, parm being NULL or not.
config_notnull(isNull, parmname) == IF isNull THEN {parmname} ELSE {}

\* Only the gateway interface is looked at.
MissingParmsGatewayOnly(cfg, auth) ==
    config_notnull(cfg.gw_interface = NULL, "GatewayInterface")

\* The second parameter is looked at only when the first is there.
MissingParmsFirstOnly(cfg, auth) ==
    IF cfg.gw_interface = NULL THEN {"GatewayInterface"}
    ELSE config_notnull(auth = 0, "AuthServer")

\* The two calls of config_notnull in config_validate: what they report.
MissingParms(cfg, auth) ==
    config_notnull(cfg.gw_interface = NULL, "GatewayInterface")
        \cup config_notnull(auth = 0, "AuthServer")

\* config_validate(), called once config_read has returned.
config_validate ==
    /\ pc = "done"
    /\ reported' = reported \cup MissingParms(config, auth_servers)
    /\ missing_parms' = IF MissingParms(config, auth_servers) # {} THEN 1
                        ELSE missing_parms
    /\ IF missing_parms' = 1
       THEN Exit(1030)
       ELSE pc' = "validated" /\ UNCHANGED exitAt
    /\ NoRuleCall
    /\ UNCHANGED <<line, linenum, nread, eof, blockType, srv, rsname, config,
                   portal_servers, plat_servers, serv, MacVars, MarkVars, BoolVars,
                   ResolverVars>>

Next ==
    \/ FileOpens
    \/ FileOpenFails
    \/ \E l \in Lines : ReadTopLine(l)
    \/ \E l \in Lines, ip \in ResolverAnswers : ReadServerLine(l, ip)
    \/ \E ip \in ResolverAnswers : ServerBlockEOF(ip)
    \/ \E l \in Lines : ReadRulesetLine(l)
    \/ RulesetBlockEOF
    \/ EndOfFile
    \/ config_validate

Spec == Init /\ [][Next]_vars

(***************************************************************************)
(* What is claimed of config_read and its block parsers                    *)
(***************************************************************************)
\* C4: when _parse_firewall_rule fails on a line of a FirewallRuleSet block,
\* the block parser ends the process: no later line is read and no
\* configuration is produced.
C4_RuleFailureAborts ==
    [][(pc = "ruleset" /\ Len(calls') = Len(calls) + 1 /\ ret' < 0)
          => pc' = "exited"]_vars

\* The rules of the successful calls of _parse_firewall_rule for the ruleset
\* name, in the order of their lines in the file.
RulesInFileOrder(name) ==
    LET ok == SelectSeq(calls, LAMBDA c : c.ret = RET_OK /\ strcmp0(c.name, name))
    IN  [i \in 1..Len(ok) |-> ok[i].rule]

\* The names of the blocks read and of the rulesets of config.rulesets.
NamesSeen ==
    {calls[i].name : i \in 1..Len(calls)} \cup
    {rulesets[i].name : i \in 1..Len(rulesets)}

\* C9: after any sequence of FirewallRuleSet blocks the names in
\* config.rulesets are pairwise distinct, and get_ruleset gives, for every
\* name, the rules accepted in all the blocks of that name in the order of
\* their lines in the file (none, NULL, when no rule of that name was
\* accepted).
C9_RulesetsAccumulateInFileOrder ==
    /\ \A i, j \in 1..Len(rulesets) :
           strcmp0(rulesets[i].name, rulesets[j].name) => i = j
    /\ \A name \in NamesSeen :
           get_ruleset(rulesets, name) = RulesInFileOrder(name)

\* Two blocks named rs1 have each given one rule, two different rules, and
\* config_read has returned.
C9_Witness ==
    /\ pc = "done"
    /\ Len(calls) = 4
    /\ calls[1] = BlockOpened(w_rs1)
    /\ calls[3] = BlockOpened(w_rs1)
    /\ calls[2].ret = RET_OK
    /\ calls[4].ret = RET_OK
    /\ calls[2].rule # calls[4].rule
    /\ get_ruleset(rulesets, w_rs1) = <<calls[2].rule, calls[4].rule>>

\* The first word of a line, without the line ending.
KeywordOf(l) ==
    LET ws == Words(SelectSeq(l, LAMBDA c : c \notin {LF, CR}))
    IN  IF ws = <<>> THEN <<>> ELSE ws[1]

\* A line that is not empty, is no comment, does not close a block, and
\* whose first word is not in the keyword table.
UnknownKeywordLine(l) ==
    /\ KeywordOf(l) # <<>>
    /\ KeywordOf(l)[1] # "#"
    /\ \A i \in 1..Len(l) : l[i] # "}"
    /\ \A i \in 1..Len(keywords) : keywords[i].name # Lower(KeywordOf(l))

\* C10: a non-empty, non-comment line whose keyword is not in the keyword
\* table ends the process wherever it is read: at the top level, with or
\* without a value after the keyword, in a server block, in a ruleset block.
C10_UnknownKeywordFatal ==
    [][(nread' = nread + 1 /\ UnknownKeywordLine(line')) => pc' = "exited"]_vars

\* The gateway interface is set and there is an authentication server.
Complete == config.gw_interface # NULL /\ auth_servers # 0

\* C11: config_read invokes the validator at the end of the file, so it never
\* returns normally with the gateway interface unset or the list of
\* authentication servers empty.
C11_ReadReturnsComplete == pc = "done" => Complete

\* C11, amended: config_read returns without validating; it is
\* config_validate, called after it, that never returns normally with the
\* gateway interface unset or the list of authentication servers empty.
C11_ValidatedIsComplete == pc = "validated" => Complete

\* config_validate has returned after a file that sets both.
C11_Witness ==
    /\ pc = "validated"
    /\ config.gw_interface = <<"e","t","h","0">>
    /\ auth_servers = 1

\* What config_validate has to report in the current state.
ToReport ==
    (IF config.gw_interface = NULL THEN {"GatewayInterface"} ELSE {})
        \cup (IF auth_servers = 0 THEN {"AuthServer"} ELSE {})

\* C12: config_validate ends the process exactly when the gateway interface
\* is unset or the list of authentication servers is empty, having recorded
\* every one of the two that is missing; otherwise it returns with nothing
\* recorded.
C12_ValidateExitsIffMissing ==
    [][(pc = "done" /\ pc' # "done")
          => /\ pc' = (IF ToReport = {} THEN "validated" ELSE "exited")
             /\ reported' = reported \cup ToReport
             /\ missing_parms' = (IF ToReport = {} THEN 0 ELSE 1)]_vars

\* The file GatewayInterface eth0, AuthServer {, Hostname h1, } has been
\* read and validated: nothing is reported.
C12_Witness ==
    /\ pc = "validated"
    /\ nread = 4
    /\ reported = {}
    /\ missing_parms = 0
    /\ Len(serv) = 1
    /\ serv[1].serv_hostname = <<"h","1">>

\* C13: parsing never completes with httpdusername set and httpdpassword
\* unset: HTTPDUserName with a value sets the user name for good, only
\* HTTPDPassword with a value sets the password, and config_read does not
\* return when the one is set and the other is not.
C13_NoUserWithoutPassword ==
    /\ [](pc \in {"done", "validated"}
             => ~(config.httpdusername # NULL /\ config.httpdpassword = NULL))
    /\ [][/\ (pc = "top" /\ line' = l_user /\ nread' = nread + 1)
                => config'.httpdusername = <<"a","d","m","i","n">>
          /\ config.httpdusername # NULL => config'.httpdusername # NULL
          /\ (config.httpdpassword = NULL /\ config'.httpdpassword # NULL)
                => line' = l_pass]_vars

\* A file with HTTPDUserName and no HTTPDPassword has ended the process at
\* the test after the loop.
C13_Witness ==
    /\ pc = "exited"
    /\ exitAt = 935
    /\ config.httpdusername = <<"a","d","m","i","n">>
    /\ config.httpdpassword = NULL

\* The violations of completeness the current state has.
Violations ==
    ToReport \cup (IF MissingPassword(config) THEN {"HTTPDPassword"} ELSE {})

\* C14: when the process exits for an incomplete configuration, every
\* violation the file has (gateway interface, authentication servers, user
\* name without password) has been reported.
C14_AllViolationsReported ==
    (pc = "exited" /\ exitAt \in {935, 1030}) => reported = Violations

RECURSIVE DropBlanks(_)
\* s without its leading blanks.
DropBlanks(s) ==
    IF s # <<>> /\ isblank(s[1]) THEN DropBlanks(Tail(s)) ELSE s

\* What follows the keyword of a line and the blanks after it, up to the
\* line ending.
Remainder(l) ==
    LET body == SelectSeq(l, LAMBDA c : c \notin {LF, CR})
        lead == DropBlanks(body)
    IN  DropBlanks(SubSeq(lead, Len(KeywordOf(l)) + 1, Len(lead)))

kw_trustedmaclist == <<"t","r","u","s","t","e","d","m","a","c","l","i","s","t">>

\* C15: a top-level TrustedMACList line hands the whole remainder of the
\* line to parse_trusted_mac_list, so every token of the value is processed
\* (AA:BB:CC:DD:EE:FF, aa:bb:cc:dd:ee:ff,AA:BB:CC:DD:EE:FF on an empty list
\* gives two entries).
C15_WholeRemainderParsed ==
    [][(pc = "top" /\ nread' = nread + 1
            /\ Lower(KeywordOf(line')) = kw_trustedmaclist)
          => trustedmaclist' =
                 parse_trusted_mac_list(trustedmaclist, Remainder(line'))]_vars

NumericDirectives ==
    {<<"g","a","t","e","w","a","y","p","o","r","t">>,
     <<"h","t","t","p","d","m","a","x","c","o","n","n">>,
     <<"c","h","e","c","k","i","n","t","e","r","v","a","l">>,
     <<"a","u","t","h","i","n","t","e","r","v","a","l">>,
     <<"c","l","i","e","n","t","t","i","m","e","o","u","t">>,
     <<"s","y","s","l","o","g","f","a","c","i","l","i","t","y">>,
     <<"p","r","o","x","y","p","o","r","t">>}

\* The value of a line: the word after the keyword.
ValueWord(l) ==
    LET ws == Words(SelectSeq(l, LAMBDA c : c \notin {LF, CR}))
    IN  IF Len(ws) < 2 THEN <<>> ELSE ws[2]

\* v starts with a base-10 integer: an optional sign and a digit.
StartsWithInt(v) ==
    /\ v # <<>>
    /\ \/ isdigit(v[1])
       \/ v[1] \in {"+", "-"} /\ Len(v) > 1 /\ isdigit(v[2])

\* C17: a numeric top-level directive whose value does not start with a
\* base-10 integer leaves its field, and every other field and list, as it
\* was, and the parser goes on with the next line.
C17_NonNumericLeavesField ==
    [][(pc = "top" /\ nread' = nread + 1
            /\ Lower(KeywordOf(line')) \in NumericDirectives
            /\ ValueWord(line') # <<>>
            /\ ~StartsWithInt(ValueWord(line')))
          => /\ config' = config
             /\ pc' = "top"
             /\ exitAt' = exitAt
             /\ UNCHANGED <<trustedmaclist, rulesets, nserv, nxt, serv,
                            auth_servers, portal_servers, plat_servers>>]_vars

\* GatewayPort abc has been read after GatewayPort 8080.
C17_Witness ==
    /\ pc = "top"
    /\ line = l_gwport_bad
    /\ nread = 2
    /\ config.gw_port = 8080

\* The list of servers of kind t: 1 authentication, 2 portal, 3 platform.
ServerList(t) == ListFrom(nxt, <<auth_servers, portal_servers, plat_servers>>[t])

\* The kind of the server block a keyword opens.
BlockKind(kw) ==
    CASE kw = <<"a","u","t","h","s","e","r","v","e","r">> -> 1
      [] kw = <<"p","o","r","t","a","l","s","e","r","v","e","r">> -> 2
      [] kw = <<"p","l","a","t","f","o","r","m","s","e","r","v","e","r">> -> 3
      [] OTHER -> 0

\* The endpoints are numbered in the order their blocks close.
InBlockOrder(l) == \A i, j \in 1..Len(l) : i < j => l[i] < l[j]

\* C16: when a server block closes without a Hostname nothing is appended
\* and the three lists stay as they are; else one new endpoint goes to the
\* tail of the list of the kind of the block and the other two lists stay,
\* so every list holds its endpoints in the order of their blocks.
C16_BlockCloseAppendsAtTail ==
    /\ [](/\ \A t \in 1..3 : InBlockOrder(ServerList(t))
          /\ \A n \in 1..nserv : \E t \in 1..3 :
                 \E i \in 1..Len(ServerList(t)) : ServerList(t)[i] = n)
    /\ [][/\ (pc = "top" /\ pc' = "server")
               => blockType' = BlockKind(Lower(KeywordOf(line')))
          /\ (pc = "server" /\ pc' = "top")
               => IF srv.host = NULL
                  THEN /\ serv' = serv
                       /\ \A t \in 1..3 : ServerList(t)' = ServerList(t)
                  ELSE /\ Len(serv') = Len(serv) + 1
                       /\ SubSeq(serv', 1, Len(serv)) = serv
                       /\ serv'[Len(serv')].serv_hostname = srv.host
                       /\ \A t \in 1..3 :
                              ServerList(t)' =
                                  IF t = blockType
                                  THEN Append(ServerList(t), Len(serv'))
                                  ELSE ServerList(t)]_vars

\* Two AuthServer blocks have closed, each with a Hostname.
C16_Witness ==
    /\ pc = "top"
    /\ ServerList(1) = <<1, 2>>
    /\ ServerList(2) = <<>>
    /\ ServerList(3) = <<>>

\* The keyword that sets each field of a server block.
ServerFieldKeyword ==
    [host                     |-> <<"h","o","s","t","n","a","m","e">>,
     path                     |-> <<"p","a","t","h">>,
     loginscriptpathfragment  |-> <<"l","o","g","i","n","s","c","r","i","p","t","p","a","t","h","f","r","a","g","m","e","n","t">>,
     portalscriptpathfragment |-> <<"p","o","r","t","a","l","s","c","r","i","p","t","p","a","t","h","f","r","a","g","m","e","n","t">>,
     msgscriptpathfragment    |-> <<"m","s","g","s","c","r","i","p","t","p","a","t","h","f","r","a","g","m","e","n","t">>,
     pingscriptpathfragment   |-> <<"p","i","n","g","s","c","r","i","p","t","p","a","t","h","f","r","a","g","m","e","n","t">>,
     authscriptpathfragment   |-> <<"a","u","t","h","s","c","r","i","p","t","p","a","t","h","f","r","a","g","m","e","n","t">>,
     http_port                |-> <<"h","t","t","p","p","o","r","t">>,
     ssl_port                 |-> <<"s","s","l","p","o","r","t">>,
     ssl_available            |-> <<"s","s","l","a","v","a","i","l","a","b","l","e">>]

\* The value a field takes from the text v of a line that mentions it.
FieldValue(f, v) ==
    IF f \in {"http_port", "ssl_port"} THEN atoi(v)
    ELSE IF f = "ssl_available"
    THEN (IF Lower(v) = kw_yes \/ v = <<"1">> THEN 1 ELSE 0)
    ELSE v

\* The field of an endpoint that carries each field of a block.
EndpointField ==
    [host                     |-> "serv_hostname",
     path                     |-> "serv_path",
     loginscriptpathfragment  |-> "serv_login_script_path_fragment",
     portalscriptpathfragment |-> "serv_portal_script_path_fragment",
     msgscriptpathfragment    |-> "serv_msg_script_path_fragment",
     pingscriptpathfragment   |-> "serv_ping_script_path_fragment",
     authscriptpathfragment   |-> "serv_auth_script_path_fragment",
     http_port                |-> "serv_http_port",
     ssl_port                 |-> "serv_ssl_port",
     ssl_available            |-> "serv_use_ssl"]

\* The keyword of each line of a server block, in lower case, and the text
\* that follows it.
ServerLineKeyword == [l \in ServerLines |-> Lower(KeywordOf(l))]
ServerLineValue == [l \in ServerLines |-> Remainder(l)]

\* C20: every server block starts from the defaults, a line of the block
\* sets the field its keyword names and no other, and the endpoint appended
\* when the block closes carries the fields as they then are: the default
\* for a field the block did not mention, the value of the last line that
\* mentions it for the others, and nothing of an earlier block.
C20_EndpointFieldsFromBlock ==
    [][/\ (pc = "top" /\ pc' = "server") => srv' = ServerDefaults
       /\ (pc = "server" /\ pc' = "server" /\ nread' = nread + 1)
            => \A f \in DOMAIN ServerFieldKeyword :
                   srv'[f] = IF ServerLineKeyword[line'] = ServerFieldKeyword[f]
                             THEN FieldValue(f, ServerLineValue[line'])
                             ELSE srv[f]
       /\ (pc = "server" /\ pc' = "top" /\ srv.host # NULL)
            => \A g \in DOMAIN EndpointField :
                   serv'[Len(serv')][EndpointField[g]] = srv[g]]_vars

\* The first block set its path, the second did not mention it: the second
\* endpoint has the default path.
C20_Witness ==
    /\ pc = "top"
    /\ Len(serv) = 2
    /\ serv[1].serv_path # Default("DEFAULT_AUTHSERVPATH")
    /\ serv[2].serv_path = Default("DEFAULT_AUTHSERVPATH")

\* C18: parse_boolean_value gives true (1) for yes in any letter case and
\* for 1, false (0) for no in any letter case and for 0, and -1, which is
\* neither, for every other string.
C18_BooleanSpellings ==
    pcB = "done" =>
        boolRet = IF Lower(boolArg) = <<"y","e","s">> \/ boolArg = <<"1">> THEN 1
                  ELSE IF Lower(boolArg) = <<"n","o">> \/ boolArg = <<"0">> THEN 0
                  ELSE -1

\* yes in mixed case was taken as true.
C18_Witness == pcB = "done" /\ boolArg = <<"Y","e","S">> /\ boolRet = 1

\* After the target, the protocol and the port, a word is left that is not
\* exactly "to", or it is "to" and no word follows it.
BadToLine(s) ==
    LET ws == Words(s)
        lw == LowerWords(s)
        w(i) == IF i <= Len(lw) THEN lw[i] ELSE <<>>
        iPort == IF IsProtocol(w(2)) THEN 3 ELSE 2
        iTo == IF w(iPort) = kw_port THEN iPort + 2 ELSE iPort
    IN  /\ iTo <= Len(ws)
        /\ ws[iTo] # kw_to \/ iTo = Len(ws)

\* C19: a line on which, after the target, protocol and port part, the next
\* word is not exactly "to", or "to" has no mask after it (blanks alone after
\* it included), is refused and no rule is appended; no rule is ever stored
\* with an empty mask (stated here for the lines whose target and port are
\* well formed).
C19_BadToRefused ==
    [][(pcR = "call" /\ pcR' = "done" /\ ~BadTargetLine(leftover)
            /\ ~BadPortLine(leftover))
          => /\ BadToLine(leftover) => (ret' < 0 /\ rulesets' = rulesets)
             /\ ret' = RET_OK => StoredRule'.mask # <<>>]_vars

\* C21: wd_gethostbyname is called only at the close of a PortalServer or
\* PlatformServer block that has a host name; when it gives no address the
\* endpoint is appended all the same, with last_ip not set, and parsing goes
\* on; when it gives one, last_ip is that address; the endpoints of the
\* AuthServer blocks have last_ip not set.
C21_ResolutionOnlyPortalPlatform ==
    /\ [](\A i \in 1..Len(ServerList(1)) : serv[ServerList(1)[i]].last_ip = NULL)
    /\ [][IF pc = "server" /\ pc' = "top" /\ srv.host # NULL /\ blockType \in {2, 3}
          THEN /\ Len(lookups') = Len(lookups) + 1
               /\ SubSeq(lookups', 1, Len(lookups)) = lookups
               /\ lookups'[Len(lookups')].host = srv.host
               /\ Len(serv') = Len(serv) + 1
               /\ ServerList(blockType)' = Append(ServerList(blockType), Len(serv'))
               /\ serv'[Len(serv')].last_ip = lookups'[Len(lookups')].answer
               /\ exitAt' = 0
          ELSE lookups' = lookups]_vars

\* A portal server whose name did not resolve is in its list, last_ip not
\* set, a platform server whose name resolved is in its list behind it, and
\* the parser is back at the top level.
C21_Witness ==
    /\ pc = "top"
    /\ ServerList(2) = <<1>>
    /\ ServerList(3) = <<2>>
    /\ serv[1].last_ip = NULL
    /\ serv[2].last_ip = ip_resolved
    /\ lookups = <<[host |-> serv[1].serv_hostname, answer |-> NULL],
                   [host |-> serv[2].serv_hostname, answer |-> ip_resolved]>>

\* The names of the keyword table.
KeywordNames == {keywords[i].name : i \in 1..Len(keywords)}

\* The keywords of the server-field directives.
ServerFieldKeywords ==
    {ServerFieldKeyword[f] : f \in DOMAIN ServerFieldKeyword} \cup {<<"l","o","g","p","o","r","t">>}

kw_firewallrule == <<"f","i","r","e","w","a","l","l","r","u","l","e">>

\* The keyword of each line of a file, in lower case.
LineKeyword == [l \in Lines |-> Lower(KeywordOf(l))]

\* The line does not end a block: it holds no '}'.
InsideBlock(l) == \A i \in 1..Len(l) : l[i] # "}"

\* C22: in a server block a line whose keyword is in the keyword table and is
\* no server-field directive, and in a ruleset block one whose keyword is in
\* the table and is not FirewallRule, ends the process: no endpoint and no
\* rule is appended by it, and nothing happens after it.
C22_ForeignKeywordFatalInBlock ==
    [][/\ pc # "exited"
       /\ (/\ nread' = nread + 1
           /\ pc \in {"server", "ruleset"}
           /\ InsideBlock(line')
           /\ LineKeyword[line'] \in KeywordNames
           /\ LineKeyword[line'] \notin
                  (IF pc = "server" THEN ServerFieldKeywords ELSE {kw_firewallrule}))
          => /\ pc' = "exited"
             /\ exitAt' = IF pc = "server" THEN 420 ELSE 608
             /\ UNCHANGED <<serv, nserv, nxt, auth_servers, portal_servers,
                            plat_servers, rulesets>>]_vars

\* A server block had its Hostname, then a GatewayInterface line ended the
\* process: the endpoint was not appended.
C22_Witness ==
    /\ pc = "exited"
    /\ exitAt = 420
    /\ line = l_gwif
    /\ srv.host # NULL
    /\ serv = <<>>
    /\ auth_servers = 0

\* The list of authentication servers, from its head.
AuthList == ListFrom(nxt, auth_servers)

\* C23: a call of mark_auth_server_bad whose argument is not the head of the
\* list, or made on a list of one entry, returns with the head and every
\* next field as they were; so a call with the server the call before it
\* took from the head changes nothing.
C23_MarkIsNoOpOffHead ==
    [][/\ (/\ pcM = "idle"
           /\ pcM' # "segv"
           /\ bad_server' # auth_servers \/ Len(AuthList) = 1)
          => (pcM' = "idle" /\ auth_servers' = auth_servers /\ nxt' = nxt)
       /\ (pcM = "idle" /\ pre # <<>> /\ bad_server' = Head(pre))
          => (pcM' = "idle" /\ auth_servers' = auth_servers /\ nxt' = nxt)]_vars

\* Server 1 was the head of three, a first call took it from the head, and
\* a second call with it has returned: the head is still server 2.
C23_Witness ==
    /\ pcM = "idle"
    /\ nserv = 3
    /\ bad_server = 1
    /\ pre = <<>>
    /\ auth_servers = 2

\* C24: whenever no call of mark_auth_server_bad is under way, a list that
\* parsing left non-empty is still non-empty, ends in NULL, holds no server
\* twice, and has one of the parsed servers at its head, whatever the
\* arguments of the calls made were.
C24_ListStaysWellFormed ==
    (pcM = "idle" /\ nserv > 0)
        => /\ auth_servers \in 1..nserv
           /\ AuthList # <<>>
           /\ NullTerminated(nxt, auth_servers)
           /\ \A i, j \in 1..Len(AuthList) : AuthList[i] = AuthList[j] => i = j

\* Three calls have been made on a list of four, each with the head of the
\* time, and a fourth call with the NULL pointer has returned.
C24_Witness ==
    /\ pcM = "idle"
    /\ nserv = 4
    /\ AuthList = <<4>>
    /\ pre = <<>>
    /\ bad_server = 0

\* The boolean a value spells: 1 for yes in any case and for 1, 0 for no in
\* any case and for 0, -1 for anything else.
BooleanOf(v) ==
    IF Lower(v) = <<"y","e","s">> \/ v = <<"1">> THEN 1
    ELSE IF Lower(v) = <<"n","o">> \/ v = <<"0">> THEN 0
    ELSE -1

\* The keyword and the value of each line tried for the flag.
DaemonLineKeyword == [l \in DaemonLines |-> Lower(KeywordOf(l))]
DaemonLineValue == [l \in DaemonLines |-> BooleanOf(ValueWord(l))]

\* C25: a Daemon line sets the daemonize flag only while the flag is unset
\* (-1) and its value is a boolean; a flag that is set, by an earlier line or
\* by the command line, is changed by no later line, a value that is no
\* boolean leaves the flag unset, and config_init_override stores the
\* default only in a flag that is still unset.
C25_DaemonSetOnce ==
    [][/\ (pc = "top" /\ nread' = nread + 1
               /\ DaemonLineKeyword[line'] = <<"d","a","e","m","o","n">>)
          => config' = IF config.daemon = -1 /\ DaemonLineValue[line'] # -1
                       THEN [config EXCEPT !.daemon = DaemonLineValue[line']]
                       ELSE config
       /\ config.daemon # -1 => config'.daemon = config.daemon
       /\ (pc = "done" /\ pc' = "ready" /\ config.daemon = -1)
          => config' = [config EXCEPT !.daemon = DefaultInt("DEFAULT_DAEMON")]]_vars

\* The file's one line was a Daemon line with no boolean: the flag stayed
\* unset and config_init_override has stored the default.
C25_Witness ==
    /\ pc = "ready"
    /\ nread = 1
    /\ line = l_daemon_maybe
    /\ config.daemon = DefaultInt("DEFAULT_DAEMON")

\* The keywords of the table that are no directive of the top level: those
\* of the server fields, FirewallRule and LogServer.
NotTopLevelKeywords ==
    ServerFieldKeywords \cup {kw_firewallrule, <<"l","o","g","s","e","r","v","e","r">>}

\* The keyword of each line tried at the top level, in lower case.
TableLineKeyword == [l \in TableTopLines |-> Lower(KeywordOf(l))]

\* C26: a top-level line whose keyword is in the keyword table and is no
\* top-level directive (a server-field keyword, FirewallRule, LogServer)
\* neither ends the process nor has an effect: every field and every list
\* of the configuration stays as it was and the next line is read at the top
\* level.
C26_TableKeywordIgnoredAtTop ==
    [][(/\ pc = "top"
        /\ nread' = nread + 1
        /\ TableLineKeyword[line'] \in KeywordNames
        /\ TableLineKeyword[line'] \in NotTopLevelKeywords)
          => /\ pc' = "top"
             /\ exitAt' = 0
             /\ UNCHANGED <<config, trustedmaclist, rulesets, serv, nserv, nxt,
                            auth_servers, portal_servers, plat_servers>>]_vars

\* The interface, the trusted MACs and an authentication server are set,
\* and a LogServer line has been read after them.
C26_Witness ==
    /\ pc = "top"
    /\ line = l_logserver
    /\ exitAt = 0
    /\ config.gw_interface # NULL
    /\ trustedmaclist # <<>>
    /\ AuthList = <<1>>

(***************************************************************************)
(* The specifications of the single operations                             *)
(***************************************************************************)
InitRule ==
    /\ leftover \in RuleInputs
    /\ ruleset \in RulesetNames
    /\ rulesets \in InitRulesets
    /\ ret = 0
    /\ retAt = 0
    /\ pcR = "call"
    /\ MacOff
    /\ MarkOff
    /\ ReadOff
    /\ BoolOff

NextRule == CallParseRule

SpecRule == InitRule /\ [][NextRule]_vars

InitMac ==
    /\ MacOff
    /\ RuleOff
    /\ MarkOff
    /\ ReadOff
    /\ BoolOff

NextMac == \E ptr \in MacInputs : CallParseTrustedMacList(ptr)

SpecMac == InitMac /\ [][NextMac]_vars

NextTop ==
    \/ FileOpens
    \/ \E l \in TopLines : nread < MaxTopLines /\ ReadTopLine(l)
    \/ EndOfFile

SpecTop == Init /\ [][NextTop]_vars

InitDaemon ==
    /\ pc = "open"
    /\ line = <<>>
    /\ linenum = 0
    /\ nread = 0
    /\ eof = FALSE
    /\ exitAt = 0
    /\ blockType = 0
    /\ srv = ServerDefaults
    /\ rsname = <<>>
    /\ config \in {[config_init EXCEPT !.daemon = d] : d \in CommandLineDaemon}
    /\ portal_servers = 0
    /\ plat_servers = 0
    /\ serv = <<>>
    /\ calls = <<>>
    /\ missing_parms = 0
    /\ reported = {}
    /\ lookups = <<>>
    /\ RuleOff
    /\ MacOff
    /\ MarkOff
    /\ BoolOff

NextDaemon ==
    \/ FileOpens
    \/ \E l \in DaemonLines : nread < MaxTopLines /\ ReadTopLine(l)
    \/ EndOfFile
    \/ config_init_override

SpecDaemon == InitDaemon /\ [][NextDaemon]_vars

NextTable ==
    \/ FileOpens
    \/ \E l \in TableTopLines : ReadTopLine(l)
    \/ \E l \in TableBlockLines : ReadServerLine(l, NULL)
    \/ ServerBlockEOF(NULL)
    \/ EndOfFile

SpecTable == Init /\ [][NextTable]_vars

NextServer ==
    \/ FileOpens
    \/ \E l \in ServerOpeners : ReadTopLine(l)
    \/ \E l \in ServerLines, ip \in ResolverAnswers : ReadServerLine(l, ip)
    \/ \E ip \in ResolverAnswers : ServerBlockEOF(ip)
    \/ EndOfFile

SpecServer == Init /\ [][NextServer]_vars

InitBool ==
    /\ boolArg \in BoolInputs
    /\ boolRet = 0
    /\ pcB = "call"
    /\ RuleOff
    /\ MacOff
    /\ MarkOff
    /\ ReadOff

NextBool == CallParseBoolean

SpecBool == InitBool /\ [][NextBool]_vars

\* The list parse_server builds from n AuthServer blocks: records 1..n, each
\* appended at the tail.
InitMark ==
    /\ nserv \in 0..MaxServers
    /\ nxt = [i \in 1..nserv |-> IF i < nserv THEN i + 1 ELSE 0]
    /\ auth_servers = (IF nserv > 0 THEN 1 ELSE 0)
    /\ pcM = "idle"
    /\ bad_server = 0
    /\ tmp = 0
    /\ pre = <<>>
    /\ rd = 0
    /\ RuleOff
    /\ MacOff
    /\ ReadOff
    /\ BoolOff

NextMark ==
    \/ \E bad \in 0..nserv : MarkEnter(bad)
    \/ MarkWalk
    \/ MarkSetLast
    \/ MarkSetHead
    \/ MarkClear
    \/ ReaderGet
    \/ ReaderNext

SpecMark == InitMark /\ [][NextMark]_vars

=============================================================================
